---- MODULE Spec2Model ----
(***************************************************************************)
(* A model of the two algorithmic cores of the NWAC weather scripts and of  *)
(* the two command lines that lead to them:                                *)
(*                                                                         *)
(*   - the correction-factor pass of the bias-correction scripts           *)
(*     (gen_bc.gen_station_cf and the per-station loop of                  *)
(*     BiasCorrection.py), specification SpecCF;                           *)
(*   - kleio's time binning (bin_data and the BinningOp helper),           *)
(*     specification SpecBin;                                              *)
(*   - a run of kleio from its date arguments to the binned rows           *)
(*     (configure_script, the query of main, bin_data), specification      *)
(*     SpecMain;                                                           *)
(*   - a run of the cron script daily_bc_gen.py (configure_script and      *)
(*     main), specification SpecCron.                                      *)
(*                                                                         *)
(* Strings that a program parses are sequences of one-character strings;   *)
(* an absent argument is None.                                             *)
(*                                                                         *)
(* Floating point.  A double is modelled as a fixed-point number: the      *)
(* integer x stands for x / Scale.  Every arithmetic operation rounds its  *)
(* exact result to the nearest grid point, as a double operation rounds    *)
(* to the nearest double.  NaN and the two infinities are values of their  *)
(* own; they propagate through the operations as IEEE 754 says.            *)
(*                                                                         *)
(* The sums of kleio are order-sensitive in the last bit, which a fixed     *)
(* grid cannot show: its readings are binary floats with a short mantissa  *)
(* and round-half-even operations (see float_add).                         *)
(*                                                                         *)
(* Python values in kleio.  None is the empty tuple, a number x is the     *)
(* one-tuple <<x>> and the AVERAGE accumulator (count, sum) is the pair    *)
(* <<count, sum>>.  A dict whose order matters is a sequence of            *)
(* <<key, value>> pairs in insertion order.                                *)
(***************************************************************************)
EXTENDS Integers, Sequences, FiniteSets, TLC

VARIABLES
    \* ---- correction-factor pass (gen_bc.py / BiasCorrection.py) ----
    variant,      \* which script runs: "gen_bc" or "BiasCorrection"
    obs,          \* the station's observation column
    fcst,         \* the station's forecast column
    cf,           \* the correction-factor column
    bc_fcst,      \* the bias-corrected forecast column
    raw_bias,     \* the raw bias column
    bc_bias,      \* the bias of the corrected forecast
    i,            \* the loop index of the pass
    cf_pc,        \* "prepared", "loop", "done" (or "idle" under SpecBin)
    branch,       \* history: the path iteration k took, at position k+1
    writes,       \* history: the cells assigned, as <<column, index, iteration>>
    \* ---- time binning (kleio.py) ----
    bin_type,     \* "daily" or "ampm" ("None" when --bin is not given)
    data,         \* the list of records handed to bin_data
    idx,          \* how many records the binning loop has consumed
    out_data_map, \* station -> time_key -> sensor_data
    output_list,  \* what bin_data returns
    bin_pc,       \* "binning", "returned", "raised" (or "idle" under SpecCF)
    keys,         \* history: <<dl_id, time_key>> of the iteration of record k
    calls,        \* history: <<function, key>> of the calls into BinningOp
    \* ---- a run of kleio (kleio.py: configure_script, main) ----
    main_pc,      \* "parsed", "configured", "queried", "fetched", "printed", "listing",
                  \* "exited" (or "idle")
    argv,         \* history: the -s and -e arguments as they were given
    start_time,   \* args.start_time: the argument, then a datetime or None
    end_time,     \* args.end_time: the argument (None when omitted), then a datetime or None
    stations,     \* args.stations: the stations of -L
    table,        \* the rows of the measurement table, in the order the database yields them
    \* ---- a run of daily_bc_gen.py ----
    cron_pc,      \* "parsed", "dates_checked", "out_dir_ready", "configured", "raised",
                  \* "kleio_done", "exited", "loading", "finished" (or "idle")
    start_date,   \* args.start_date
    end_date,     \* args.end_date (None when -e is omitted)
    out_dir,      \* the state of args.out_dir: "missing", "empty" or "not_empty"
    config,       \* the keys of the DEFAULT section of the config file
    cron_stderr,  \* what the script has written to its stderr, as a sequence of messages
    kleio_command,\* the command handed to subprocess.Popen (None before)
    kleio_result  \* what the kleio process gave: returncode and stderr lines

cfVars  == <<variant, obs, fcst, cf, bc_fcst, raw_bias, bc_bias, i, cf_pc, branch, writes>>
binVars == <<bin_type, data, idx, out_data_map, output_list, bin_pc, keys, calls>>
mainVarsButPc == <<argv, start_time, end_time, stations, table>>
mainVars == <<main_pc, mainVarsButPc>>
cronVars == <<cron_pc, start_date, end_date, out_dir, config, cron_stderr,
              kleio_command, kleio_result>>
vars    == <<cfVars, binVars, mainVars, cronVars>>

----------------------------------------------------------------------------
(* Bounds of the model *)

\* Grid points per unit: the double 1.0 is the integer Scale.
Scale == 10000
\* Longest station series drawn from the input grid.
MaxLen == 3
\* Days of the dry spell (observed rain, none forecast) of the DrySpell series.
DryDays == 35
\* Longest record list handed to bin_data.
MaxRecs == 3
\* Bits of the mantissa of the binary floating-point format of the sensor
\* readings (a double has 53).
MantBits == 3

----------------------------------------------------------------------------
(* Doubles on a grid *)

Abs(x) == IF x < 0 THEN -x ELSE x
Sgn(x) == IF x < 0 THEN -1 ELSE IF x > 0 THEN 1 ELSE 0

\* Values outside the finite range: +inf is above and -inf below every finite
\* value, so that the order comparisons of finite and infinite values are those
\* of the integers.  NaN compares false with everything (see FLe, FLt, FGt).
PosInf == 2^30
NegInf == -(2^30)
NaN    == -(2^30) - 1

IsNaN(x)    == x = NaN
IsInf(x)    == x = PosInf \/ x = NegInf

\* a / b of two non-negative integers, b > 0, rounded to the nearest integer.
\* The quotient is rounded on the remainder: 2 * a may exceed 32-bit integers.
RoundDiv(a, b) == (a \div b) + (IF 2 * (a % b) >= b THEN 1 ELSE 0)

\* x <= y, x < y, x > y on doubles: false when either operand is NaN.
FLe(x, y) == ~IsNaN(x) /\ ~IsNaN(y) /\ x <= y
FLt(x, y) == ~IsNaN(x) /\ ~IsNaN(y) /\ x < y
FGt(x, y) == ~IsNaN(x) /\ ~IsNaN(y) /\ x > y

\* x + y on doubles.
FAdd(x, y) ==
    IF IsNaN(x) \/ IsNaN(y) THEN NaN
    ELSE IF IsInf(x) /\ IsInf(y) THEN (IF x = y THEN x ELSE NaN)
    ELSE IF IsInf(x) THEN x
    ELSE IF IsInf(y) THEN y
    ELSE x + y

FNeg(x) == IF IsNaN(x) THEN NaN ELSE -x

\* x - y on doubles.
FSub(x, y) == FAdd(x, FNeg(y))

\* |a| * Scale / |b| rounded to nearest, by long division: the product
\* a * Scale itself may exceed 32-bit integers.
MagDiv(a, b) ==
    LET q == a \div b
        r == a % b
    IN  q * Scale + RoundDiv(r * Scale, b)

\* The double nearest to num/den, for a decimal literal such as 0.01 = F(1, 100).
F(num, den) == MagDiv(num, den)

\* x / y on doubles (numpy semantics: a zero divisor gives an infinity or NaN,
\* never an exception).
FDiv(x, y) ==
    IF IsNaN(x) \/ IsNaN(y) THEN NaN
    ELSE IF IsInf(x) /\ IsInf(y) THEN NaN
    ELSE IF IsInf(x) THEN (IF Sgn(y) < 0 THEN FNeg(x) ELSE x)
    ELSE IF IsInf(y) THEN 0
    ELSE IF y = 0 THEN (IF x = 0 THEN NaN ELSE IF x > 0 THEN PosInf ELSE NegInf)
    ELSE Sgn(x) * Sgn(y) * MagDiv(Abs(x), Abs(y))

\* |a| * |b| / Scale rounded to nearest, the high part of a multiplied apart.
MagMul(a, b) == (a \div Scale) * b + RoundDiv((a % Scale) * b, Scale)

\* x * y on finite doubles.
FMul(x, y) == Sgn(x) * Sgn(y) * MagMul(Abs(x), Abs(y))

\* Levels of Lambert's continued fraction evaluated for tanh.
TanhTerms == 8

\* The denominator of Lambert's continued fraction
\* tanh x = x / (1 + x^2 / (3 + x^2 / (5 + ...))), from level k down.
RECURSIVE Lambert(_, _)
Lambert(x2, k) ==
    IF k > TanhTerms THEN (2 * k - 1) * Scale
    ELSE (2 * k - 1) * Scale + FDiv(x2, Lambert(x2, k + 1))

\* numpy.tanh on the grid: odd, within one grid point of the real tanh, and
\* exactly 1.0 from the argument on at which 1 - tanh x is below half a grid point.
Tanh(x) ==
    IF IsNaN(x) THEN NaN
    ELSE IF Abs(x) >= 6 * Scale THEN Sgn(x) * Scale
    ELSE FDiv(x, Lambert(FMul(x, x), 1))

----------------------------------------------------------------------------
(* The correction-factor pass: gen_bc.gen_station_cf and BiasCorrection.py *)

TAU == 30

\* s.iat[k] of a column: the columns are sequences, Python counts from 0.
At(s, k) == s[k + 1]

\* Mutant of SetAt: the slice assignment s.iloc[:k + 1] = v, which overwrites
\* every cell up to k.
SetAtSlice(s, k, v) == [j \in DOMAIN s |-> IF j <= k + 1 THEN v ELSE s[j]]

\* s.iat[k] = v.  The loop bound keeps k inside the column.
SetAt(s, k, v) == IF k + 1 \in DOMAIN s THEN [s EXCEPT ![k + 1] = v] ELSE s

\* prep_station_dataframe: a derived column of n cells, each 0.0.
ZeroColumn(n) == [k \in 1..n |-> 0]

\* Mutant of InitialCF: the assignment cf.iat[0] = 1.0 is lost and the cell
\* keeps the 0.0 of the prepared column.
InitialCFUnset == At(ZeroColumn(1), 0)

\* cf.iat[0] = 1.0
InitialCF == Scale

\* Mutant of LoopBound: range(len(stat_df)), one iteration too many.
LoopBoundWhole(n) == n

\* range(len(stat_df) - 1): the number of iterations over a series of n days.
LoopBound(n) == n - 1

\* Mutant of Guard: obs_cur < 0.01 in place of obs_cur <= 0.01.
GuardStrict(obs_cur, fcst_cur) ==
    FLt(obs_cur, F(1, 100)) \/ IsNaN(obs_cur) \/ IsNaN(fcst_cur)

\* The stale/invalid guard of both scripts.
Guard(obs_cur, fcst_cur) ==
    FLe(obs_cur, F(1, 100)) \/ IsNaN(obs_cur) \/ IsNaN(fcst_cur)

\* a / b for a signed integer a and b > 0, rounded to the nearest integer.
SRoundDiv(a, b) == Sgn(a) * RoundDiv(Abs(a), b)

\* Mutant of Smoothed: the ratio term is subtracted.
SmoothedMinus(cf_cur, fcst_cur, obs_cur) ==
    SRoundDiv((TAU - 1) * cf_cur - FDiv(fcst_cur, obs_cur), TAU)

\* ((TAU - 1) / TAU) * cf_cur + (1 / TAU) * (fcst_cur / obs_cur).  The
\* coefficients are no grid points: the sum is formed in units of 1/TAU and
\* rounded once, which is within a grid point of what the doubles give.
Smoothed(cf_cur, fcst_cur, obs_cur) ==
    SRoundDiv((TAU - 1) * cf_cur + FDiv(fcst_cur, obs_cur), TAU)

\* Mutant of JumpTest: the ratio test is lost and only the low-sum test is left.
JumpTestSumOnly(cf_tmrw, cf_today, fcst_today, obs_today) ==
    FLt(FAdd(fcst_today, obs_today), Scale)

\* BiasCorrection.py: the jump test, cf_tmrw / cf_today > 1.5 and
\* fcst_today + obs_today < 1.
JumpTest(cf_tmrw, cf_today, fcst_today, obs_today) ==
    /\ FGt(FDiv(cf_tmrw, cf_today), F(3, 2))
    /\ FLt(FAdd(fcst_today, obs_today), Scale)

\* BiasCorrection.py: cf_today + (cf_tmrw - cf_today) / (cf_tmrw + cf_today)
Normalized(cf_tmrw, cf_today) ==
    FAdd(cf_today, FDiv(FSub(cf_tmrw, cf_today), FAdd(cf_tmrw, cf_today)))

\* gen_bc.py: np.tanh(cf.iat[i + 1] - cf_cur) + cf_cur, applied to every update.
TanhDamped(cf_tmrw, cf_cur) == FAdd(Tanh(FSub(cf_tmrw, cf_cur)), cf_cur)

\* The value a script stores in cf.iat[i + 1].
NextCF(v, cf_cur, fcst_cur, obs_cur) ==
    IF Guard(obs_cur, fcst_cur) THEN cf_cur
    ELSE LET cf_tmrw == Smoothed(cf_cur, fcst_cur, obs_cur)
         IN  IF v = "gen_bc" THEN TanhDamped(cf_tmrw, cf_cur)
             ELSE IF JumpTest(cf_tmrw, cf_cur, fcst_cur, obs_cur)
                  THEN Normalized(cf_tmrw, cf_cur)
                  ELSE cf_tmrw

\* The path an iteration takes: "guard", "update" (the smoothed value is
\* stored as it is) or "damped" (it is replaced before the iteration ends).
BranchOf(v, cf_cur, fcst_cur, obs_cur) ==
    IF Guard(obs_cur, fcst_cur) THEN "guard"
    ELSE IF v = "gen_bc" THEN "damped"
    ELSE IF JumpTest(Smoothed(cf_cur, fcst_cur, obs_cur), cf_cur, fcst_cur, obs_cur)
         THEN "damped"
         ELSE "update"

\* Mutant of BcForecast: the factor just stored for day i+1 is the divisor.
BcForecastTomorrow(fcst_cur, cf_cur, cf_next) == FDiv(fcst_cur, cf_next)

\* bc_fcst.iat[i] = fcst_cur / cf_cur: the factor read at the top of the
\* iteration, not the one just stored in cf.iat[i + 1].
BcForecast(fcst_cur, cf_cur, cf_next) == FDiv(fcst_cur, cf_cur)

\* Mutant of BcBias: the raw forecast is compared with the observation.
BcBiasOfRaw(bc_fcst_i, fcst_cur, obs_cur) == FSub(fcst_cur, obs_cur)

\* bc_bias.iat[i] = bc_fcst.iat[i] - obs_cur
BcBias(bc_fcst_i, fcst_cur, obs_cur) == FSub(bc_fcst_i, obs_cur)

\* raw_bias.iat[i] = fcst_cur - obs_cur
RawBias(bc_fcst_i, fcst_cur, obs_cur) == FSub(fcst_cur, obs_cur)

\* The scripts that hold the pass.
Variants == {"gen_bc", "BiasCorrection"}

\* Observations and forecasts of the input grid: an error flag (NaN), the
\* guard's threshold 0.01 itself, a trace of rain (0.02), half a unit; no
\* rain forecast, 0.4, 0.5 and 1.0 (with which forecast + observation >= 1),
\* and a forecast below zero (-1.0), which neither script rejects.
ObsGrid  == {NaN, F(1, 100), F(2, 100), F(1, 2)}
FcstGrid == {NaN, 0, F(4, 10), Scale, -Scale}

\* Every series of 1..MaxLen days over the grid, as <<observations, forecasts>>.
GridSeries ==
    UNION {[1..n -> ObsGrid] \X [1..n -> FcstGrid] : n \in 1..MaxLen}

\* The series of the specification's concrete scenario.
ScenarioSeries ==
    << <<F(1, 2), F(2, 100), Scale>>, <<F(4, 10), F(3, 10), F(9, 10)>> >>

\* DryDays days on which 0.5 was observed and nothing forecast, then a day
\* with a trace observed and 0.2 forecast, a day without an observation, and
\* the last day.
DrySpellSeries ==
    << [k \in 1..(DryDays + 3) |->
           IF k <= DryDays THEN F(1, 2)
           ELSE IF k = DryDays + 1 THEN F(2, 100)
           ELSE IF k = DryDays + 2 THEN NaN ELSE Scale],
       [k \in 1..(DryDays + 3) |->
           IF k <= DryDays THEN 0
           ELSE IF k = DryDays + 1 THEN F(2, 10)
           ELSE IF k = DryDays + 2 THEN F(4, 10) ELSE 0] >>

InputSeries == GridSeries \cup {ScenarioSeries, DrySpellSeries}

\* kleio is not running while a bias-correction script runs.
BinIdle ==
    /\ bin_type = "daily"
    /\ data = << >>
    /\ idx = 0
    /\ out_data_map = << >>
    /\ output_list = << >>
    /\ bin_pc = "idle"
    /\ keys = << >>
    /\ calls = {}

\* kleio's command line is not running.
MainIdle ==
    /\ main_pc = "idle"
    /\ argv = << >>
    /\ start_time = << >>
    /\ end_time = << >>
    /\ stations = << >>
    /\ table = << >>

\* The cron script is not running.
CronIdle ==
    /\ cron_pc = "idle"
    /\ start_date = << >>
    /\ end_date = << >>
    /\ out_dir = "missing"
    /\ config = {}
    /\ cron_stderr = << >>
    /\ kleio_command = << >>
    /\ kleio_result = << >>

\* prep_station_dataframe (gen_bc.py) and lines 86-111 of BiasCorrection.py: the
\* station's observation and forecast columns, and four derived columns of 0.0.
InitCF ==
    /\ variant \in Variants
    /\ \E series \in InputSeries :
          /\ obs = series[1]
          /\ fcst = series[2]
          /\ cf = ZeroColumn(Len(series[1]))
          /\ bc_fcst = ZeroColumn(Len(series[1]))
          /\ raw_bias = ZeroColumn(Len(series[1]))
          /\ bc_bias = ZeroColumn(Len(series[1]))
    /\ i = 0
    /\ cf_pc = "prepared"
    /\ branch = << >>
    /\ writes = {}
    /\ BinIdle
    /\ MainIdle
    /\ CronIdle

\* cf.iat[0] = 1.0, and the loop is entered.
StartPass ==
    /\ cf_pc = "prepared"
    /\ cf' = SetAt(cf, 0, InitialCF)
    /\ writes' = writes \cup {<<"cf", 0, -1>>}
    /\ cf_pc' = "loop"
    /\ UNCHANGED <<variant, obs, fcst, bc_fcst, raw_bias, bc_bias, i, branch, binVars, mainVars, cronVars>>

\* One iteration of the loop of script v.
Iteration(v) ==
    /\ cf_pc = "loop"
    /\ variant = v
    /\ i < LoopBound(Len(obs))
    /\ LET obs_cur  == At(obs, i)
           fcst_cur == At(fcst, i)
           cf_cur   == At(cf, i)
           cf_next  == NextCF(v, cf_cur, fcst_cur, obs_cur)
           bc_i     == BcForecast(fcst_cur, cf_cur, cf_next)
       IN  /\ cf' = SetAt(cf, i + 1, cf_next)
           /\ bc_fcst' = SetAt(bc_fcst, i, bc_i)
           /\ bc_bias' = SetAt(bc_bias, i, BcBias(bc_i, fcst_cur, obs_cur))
           /\ raw_bias' = SetAt(raw_bias, i, RawBias(bc_i, fcst_cur, obs_cur))
           /\ branch' = Append(branch, BranchOf(v, cf_cur, fcst_cur, obs_cur))
    /\ writes' = writes \cup {<<"cf", i + 1, i>>, <<"bc_fcst", i, i>>,
                              <<"bc_bias", i, i>>, <<"raw_bias", i, i>>}
    /\ i' = i + 1
    /\ UNCHANGED <<variant, obs, fcst, cf_pc, binVars, mainVars, cronVars>>

\* gen_bc.gen_station_cf: one iteration.
GenBcStep == Iteration("gen_bc")

\* BiasCorrection.py: one iteration of the per-station loop.
BiasCorrectionStep == Iteration("BiasCorrection")

\* The range is exhausted: the pass is over.
EndPass ==
    /\ cf_pc = "loop"
    /\ i >= LoopBound(Len(obs))
    /\ cf_pc' = "done"
    /\ UNCHANGED <<variant, obs, fcst, cf, bc_fcst, raw_bias, bc_bias, i, branch, writes, binVars, mainVars, cronVars>>

NextCFPass == StartPass \/ GenBcStep \/ BiasCorrectionStep \/ EndPass

SpecCF == InitCF /\ [][NextCFPass]_vars

----------------------------------------------------------------------------
(* Claims on the correction-factor pass *)

\* The iterations that have run to their end.
Completed == 0..(i - 1)

\* The guard as the claims word it: obs[j] <= 0.01, or obs[j] or fcst[j] is NaN.
GuardCase(j) ==
    \/ At(obs, j) = NaN
    \/ At(fcst, j) = NaN
    \/ (At(obs, j) # NaN /\ At(obs, j) <= F(1, 100))

\* The pre-damping candidate of step j:
\* (29/30) * cf[j] + (1/30) * (fcst[j] / obs[j]).
CandidateAt(j) == SRoundDiv(29 * At(cf, j) + FDiv(At(fcst, j), At(obs, j)), 30)

\* The dampening condition of step j: candidate / cf[j] > 1.5 and
\* fcst[j] + obs[j] < 1.
DampeningCase(j) ==
    /\ FGt(FDiv(CandidateAt(j), At(cf, j)), F(3, 2))
    /\ FLt(FAdd(At(fcst, j), At(obs, j)), Scale)

\* x lies strictly between a and b.
StrictlyBetween(x, a, b) == (a < x /\ x < b) \/ (b < x /\ x < a)

\* C3 (as claimed): in both scripts, for every step j in which the guard does
\* not fire and the dampening condition does not hold,
\* cf[j+1] = (29/30) * cf[j] + (1/30) * (fcst[j] / obs[j]).
C3_SmoothedUpdate ==
    \A j \in Completed :
        (~GuardCase(j) /\ ~DampeningCase(j)) => At(cf, j + 1) = CandidateAt(j)

\* C4 (as claimed, for BiasCorrection.py): whenever the jump test fires at step
\* j, the damped cf[j+1] lies strictly between cf[j] and the candidate.
C4_DampedBetween ==
    variant = "BiasCorrection" =>
        \A j \in Completed :
            At(branch, j) = "damped" =>
                StrictlyBetween(At(cf, j + 1), At(cf, j), CandidateAt(j))

\* C5: for every step j where obs[j] <= 0.01, or obs[j] is NaN, or fcst[j] is
\* NaN, cf[j+1] = cf[j] exactly, and the iteration runs to its end (it stores
\* its three derived values; nothing is raised).
C5_GuardCarriesForward ==
    \A j \in Completed :
        GuardCase(j) =>
            /\ At(cf, j + 1) = At(cf, j)
            /\ {<<"bc_fcst", j, j>>, <<"bc_bias", j, j>>, <<"raw_bias", j, j>>} \subseteq writes

\* C5 witness: a finished pass in which the guard fired on an observation of
\* exactly 0.01, with a forecast present, at a factor other than 1.0.
C5_Witness ==
    /\ cf_pc = "done"
    /\ \E j \in Completed :
          /\ At(obs, j) = F(1, 100)
          /\ At(fcst, j) \notin {NaN, 0}
          /\ At(cf, j) # Scale
          /\ At(cf, j + 1) = At(cf, j)

\* C6: once the pass has set out on a non-empty series, and when it is over,
\* cf[0] = 1.0, whatever the observations and forecasts.
C6_FirstFactorIsOne ==
    cf_pc \in {"loop", "done"} => (Len(cf) >= 1 /\ At(cf, 0) = Scale)

\* C6 witness: a finished pass over a single day, and one over several days
\* that begin with a missing observation.
C6_Witness ==
    /\ cf_pc = "done"
    /\ At(cf, 0) = Scale
    /\ Len(obs) = 1 \/ (Len(obs) = 3 /\ At(obs, 0) = NaN /\ At(cf, 2) # Scale)

\* C7: for every step j, bc_forecast[j] = fcst[j] / cf[j], the factor of day j,
\* in the guard branch and in the update branch alike.  (A missing forecast
\* gives NaN on both sides.)
C7_ForecastUsesTodaysFactor ==
    \A j \in Completed : At(bc_fcst, j) = FDiv(At(fcst, j), At(cf, j))

\* C7 witness: a finished pass with a guard step and an update step, the
\* update step being one where dividing by cf[j+1] would give another value.
C7_Witness ==
    /\ cf_pc = "done"
    /\ \E j \in Completed : At(branch, j) = "guard" /\ At(fcst, j) # NaN
    /\ \E j \in Completed :
          /\ At(branch, j) # "guard"
          /\ FDiv(At(fcst, j), At(cf, j + 1)) # At(bc_fcst, j)

\* C8: for every step j, whichever branch it took,
\* raw_bias[j] = fcst[j] - obs[j] and bc_bias[j] = bc_forecast[j] - obs[j].
C8_Biases ==
    \A j \in Completed :
        /\ At(raw_bias, j) = FSub(At(fcst, j), At(obs, j))
        /\ At(bc_bias, j) = FSub(At(bc_fcst, j), At(obs, j))

\* C8 witness: a finished pass of BiasCorrection.py that took all three
\* branches, with a corrected bias that differs from the raw bias.
C8_Witness ==
    /\ cf_pc = "done"
    /\ variant = "BiasCorrection"
    /\ \A b \in {"guard", "update", "damped"} : \E j \in Completed : At(branch, j) = b
    /\ \E j \in Completed : At(bc_bias, j) # At(raw_bias, j)

\* The derived columns other than cf, by name.
DerivedColumn(name) ==
    IF name = "bc_fcst" THEN bc_fcst ELSE IF name = "bc_bias" THEN bc_bias ELSE raw_bias

\* C9: a pass over n days runs n-1 iterations; bc_forecast, bc_bias and
\* raw_bias at index n-1 are never written and stay 0.0, and cf[n-1] is
\* written by iteration n-2.
C9_LastIndexUntouched ==
    cf_pc = "done" =>
        LET n == Len(obs)
        IN  /\ i = n - 1
            /\ Len(branch) = n - 1
            /\ \A name \in {"bc_fcst", "bc_bias", "raw_bias"} :
                  /\ At(DerivedColumn(name), n - 1) = 0
                  /\ ~\E w \in writes : w[1] = name /\ w[2] = n - 1
            /\ n >= 2 => <<"cf", n - 1, n - 2>> \in writes

\* C9 witness: a finished pass over three days whose last day has data that
\* would give non-zero derived values, had the loop reached it.
C9_Witness ==
    /\ cf_pc = "done"
    /\ Len(obs) = 3
    /\ At(obs, 2) = F(1, 2) /\ At(fcst, 2) = F(4, 10)
    /\ At(cf, 2) # Scale

\* C10 (as claimed): for obs = [0.5, 0.02, 1.0] and fcst = [0.4, 0.3, 0.9] the
\* pass yields cf = [1.0, 0.99333, 1.46022], to within a grid point.
C10_Scenario ==
    (cf_pc = "done" /\ <<obs, fcst>> = ScenarioSeries) =>
        /\ At(cf, 0) = Scale
        /\ Abs(At(cf, 1) - F(99333, 100000)) <= 1
        /\ Abs(At(cf, 2) - F(146022, 100000)) <= 1

\* The cells of a column other than those at the given indices keep their value.
KeepsExcept(col, colNext, indices) ==
    /\ DOMAIN colNext = DOMAIN col
    /\ \A j \in 0..(Len(col) - 1) : j \notin indices => At(colNext, j) = At(col, j)

\* C22: the pass is a single forward pass.  No step modifies obs or fcst; the
\* step that is iteration i writes cf[i+1], bc_forecast[i], bc_bias[i] and
\* raw_bias[i] and no other cell; and while the loop stands at iteration i or
\* later, no cf[j] with j <= i and no derived value at an index below i changes.
C22_ForwardPass ==
    [][/\ obs' = obs
       /\ fcst' = fcst
       /\ cf_pc = "loop" =>
              /\ KeepsExcept(cf, cf', {i + 1})
              /\ \A name \in {"bc_fcst", "bc_bias", "raw_bias"} :
                    KeepsExcept(DerivedColumn(name), DerivedColumn(name)', {i})
              /\ writes' \ writes \subseteq
                    {<<"cf", i + 1, i>>, <<"bc_fcst", i, i>>,
                     <<"bc_bias", i, i>>, <<"raw_bias", i, i>>}
              /\ i' \in {i, i + 1}]_vars

\* C22 witness: a finished pass over three days whose second iteration stored
\* a factor that differs from both factors before it, and non-zero derived
\* values at index 0 and at index 1.
C22_Witness ==
    /\ cf_pc = "done"
    /\ Len(obs) = 3
    /\ At(cf, 2) \notin {At(cf, 0), At(cf, 1)}
    /\ At(cf, 1) # At(cf, 0)
    /\ At(bc_fcst, 0) \notin {0, NaN} /\ At(bc_fcst, 1) \notin {0, NaN, At(bc_fcst, 0)}
    /\ <<"cf", 2, 1>> \in writes

\* The jump of step j before and after the dampening.
UndampedJump(j) == FSub(CandidateAt(j), At(cf, j))
DampedJump(j)   == FSub(At(cf, j + 1), At(cf, j))

\* C23 (as claimed): whenever dampening is applied at step j, in either
\* script, the damped jump cf[j+1] - cf[j] has the sign of the undamped jump
\* candidate - cf[j], and its magnitude is strictly less than 1.
C23_DampedJumpKeepsSign ==
    \A j \in Completed :
        At(branch, j) = "damped" =>
            /\ Sgn(DampedJump(j)) = Sgn(UndampedJump(j))
            /\ Abs(DampedJump(j)) < Scale

\* A double that is neither NaN nor an infinity.
IsFinite(x) == ~IsNaN(x) /\ ~IsInf(x)

\* C25: in the dampening branch of BiasCorrection.py the denominator is never
\* zero.  Whenever cf_tmrw / cf_today > 1.5 holds at a step with
\* cf_today # 0, cf_tmrw and cf_today have the same sign and their sum is not
\* zero; the branch runs only under that condition, and the value it stores,
\* cf_today + (cf_tmrw - cf_today) / (cf_tmrw + cf_today), is finite.
C25_DenominatorNotZero ==
    variant = "BiasCorrection" =>
        \A j \in Completed :
            LET cf_today == At(cf, j)
                cf_tmrw  == CandidateAt(j)
            IN  /\ (~GuardCase(j) /\ cf_today # 0
                        /\ FGt(FDiv(cf_tmrw, cf_today), F(3, 2))) =>
                       /\ Sgn(cf_tmrw) = Sgn(cf_today)
                       /\ FAdd(cf_tmrw, cf_today) # 0
                /\ (At(branch, j) = "damped" /\ cf_today # 0) =>
                       /\ Sgn(cf_tmrw) = Sgn(cf_today)
                       /\ FAdd(cf_tmrw, cf_today) # 0
                       /\ IsFinite(At(cf, j + 1))
                       /\ At(cf, j + 1) =
                             FAdd(cf_today, FDiv(FSub(cf_tmrw, cf_today),
                                                 FAdd(cf_tmrw, cf_today)))

\* C25 witness: a finished pass of BiasCorrection.py that ran the dampening
\* branch at a factor below zero, where the numerator and the denominator of
\* the quotient are both negative.
C25_Witness ==
    /\ cf_pc = "done"
    /\ variant = "BiasCorrection"
    /\ \E j \in Completed :
          /\ At(branch, j) = "damped"
          /\ At(cf, j) < 0
          /\ CandidateAt(j) < At(cf, j)

\* No forecast of the series is below zero (a missing forecast is NaN).
ForecastsNotNegative == \A k \in DOMAIN fcst : IsNaN(fcst[k]) \/ fcst[k] >= 0

\* The indices of cf that the pass has written so far.
WrittenCF == IF cf_pc = "prepared" THEN {} ELSE 0..i

\* C26: if every forecast is >= 0 or NaN, every factor the pass has written is
\* strictly positive (and finite) in both scripts, whichever branch wrote it,
\* and no bc_forecast[j] = fcst[j] / cf[j] is the outcome of a division by
\* zero; at the end of the pass that is every index of the series.
C26_FactorStaysPositive ==
    ForecastsNotNegative =>
        /\ \A j \in WrittenCF : At(cf, j) > 0 /\ IsFinite(At(cf, j))
        /\ \A j \in Completed :
              /\ ~IsInf(At(bc_fcst, j))
              /\ IsNaN(At(bc_fcst, j)) => IsNaN(At(fcst, j))
        /\ cf_pc = "done" => WrittenCF = 0..(Len(cf) - 1)

\* C26 witness: a finished pass of BiasCorrection.py over three days without
\* a negative forecast, in which a day with rain observed and none forecast
\* pulled the factor down and the next update was dampened.
C26_Witness ==
    /\ cf_pc = "done"
    /\ variant = "BiasCorrection"
    /\ Len(obs) = 3
    /\ ForecastsNotNegative
    /\ At(branch, 0) = "update" /\ At(fcst, 0) = 0 /\ At(cf, 1) < At(cf, 0)
    /\ At(branch, 1) = "damped"

----------------------------------------------------------------------------
(* kleio: BinningOp *)

\* Python's None, and a number as a Python value.
None == << >>
Num(x) == <<x>>

\* The floats of the sensor readings.  A reading is a binary floating-point
\* number with a mantissa of MantBits bits, counted in units of 2^-MantBits:
\* the integer x stands for x / 2^MantBits, every integer below 2^MantBits is
\* a float, and from there on only the multiples of the unit in the last
\* place are.  An operation gives the float nearest to the exact result, the
\* one with the even mantissa when two are as near (IEEE 754 round-half-even).

\* The unit in the last place of the floats around x >= 0, found from u up.
RECURSIVE UlpOf(_, _)
UlpOf(x, u) == IF x < u * 2^MantBits THEN u ELSE UlpOf(x, 2 * u)

\* n / d, n >= 0 and d > 0, rounded to the nearest integer, halves to even.
RoundHalfEven(n, d) ==
    LET q == n \div d
        r == n % d
    IN  IF 2 * r < d THEN q
        ELSE IF 2 * r > d THEN q + 1
        ELSE IF q % 2 = 0 THEN q ELSE q + 1

\* The float nearest to n / d, n >= 0 and d > 0.
RoundToFloat(n, d) ==
    LET u == UlpOf(n \div d, 1)
    IN  u * RoundHalfEven(n, d * u)

\* x + y on floats, and x / n of a float by a positive int.
float_add(x, y) == Sgn(x + y) * RoundToFloat(Abs(x + y), 1)
float_div(x, n) == Sgn(x) * RoundToFloat(Abs(x), n)

\* BinningOp.FIELD_MAP: the action of every field of the measurement table
\* that has one.  The fields commented out in the source have no entry.
FIELD_MAP ==
    [ data_logger_id      |-> "NULL",
      time                |-> "NULL",
      is_24hr             |-> "CHECK_EQUAL",
      battery_voltage     |-> "AVERAGE",
      temperature         |-> "AVERAGE",
      relative_humidity   |-> "AVERAGE",
      precipitation       |-> "SUM",
      snow_depth          |-> "AVERAGE",
      wind_direction      |-> "AVERAGE",
      wind_speed_average  |-> "AVERAGE",
      wind_speed_minimum  |-> "MIN",
      wind_speed_maximum  |-> "MAX",
      barometric_pressure |-> "AVERAGE",
      equip_temperature   |-> "AVERAGE",
      solar_pyranometer   |-> "AVERAGE",
      net_solar           |-> "AVERAGE",
      soil_moisture_a     |-> "AVERAGE",
      soil_moisture_b     |-> "AVERAGE",
      soil_moisture_c     |-> "AVERAGE",
      soil_temperature_a  |-> "AVERAGE",
      soil_temperature_b  |-> "AVERAGE",
      soil_temperature_c  |-> "AVERAGE" ]

\* is_binnable_col leaving out only the columns that are never binned.
is_binnable_unless_null(col_name) ==
    IF col_name \in DOMAIN FIELD_MAP /\ FIELD_MAP[col_name] = "NULL"
    THEN FALSE
    ELSE TRUE

\* BinningOp.is_binnable_col
is_binnable_col(col_name) ==
    IF col_name \notin DOMAIN FIELD_MAP \/ FIELD_MAP[col_name] = "NULL"
    THEN FALSE
    ELSE TRUE

\* BinningOp.mix_in_value raises: the key has no action (ValueError), the key
\* is never to be binned (RuntimeError), or a CHECK_EQUAL value differs from
\* the stored one (ValueError).
MixInRaises(old_value, key, cur_value) ==
    IF key \notin DOMAIN FIELD_MAP THEN TRUE
    ELSE IF FIELD_MAP[key] = "NULL" THEN TRUE
    ELSE IF FIELD_MAP[key] = "CHECK_EQUAL"
         THEN old_value # None /\ old_value # cur_value
         ELSE FALSE

\* min that gives the larger of the two.
Min2Larger(a, b) == IF a <= b THEN b ELSE a

Min2(a, b) == IF a <= b THEN a ELSE b
Max2(a, b) == IF a >= b THEN a ELSE b

\* mix_in_value whose AVERAGE starts from the pair (1, 0.0).
mix_in_value_count_from_one(old_value, key, cur_value) ==
    LET action == FIELD_MAP[key]
    IN  CASE action = "CHECK_EQUAL" ->
               IF old_value = None THEN cur_value ELSE None
          [] action = "AVERAGE" ->
               LET old == IF old_value = None THEN <<1, 0>> ELSE old_value
               IN  <<old[1] + 1, float_add(old[2], cur_value[1])>>
          [] action = "SUM" ->
               LET old == IF old_value = None THEN Num(0) ELSE old_value
               IN  Num(float_add(old[1], cur_value[1]))
          [] action = "MIN" ->
               IF old_value = None THEN cur_value
               ELSE Num(IF old_value[1] <= cur_value[1] THEN old_value[1] ELSE cur_value[1])
          [] action = "MAX" ->
               IF old_value = None THEN cur_value
               ELSE Num(IF old_value[1] >= cur_value[1] THEN old_value[1] ELSE cur_value[1])

\* mix_in_value whose MIN and MAX keep the value of the first record.
mix_in_value_first(old_value, key, cur_value) ==
    LET action == FIELD_MAP[key]
    IN  CASE action = "CHECK_EQUAL" ->
               IF old_value = None THEN cur_value ELSE None
          [] action = "AVERAGE" ->
               LET old == IF old_value = None THEN <<0, 0>> ELSE old_value
               IN  <<old[1] + 1, float_add(old[2], cur_value[1])>>
          [] action = "SUM" ->
               LET old == IF old_value = None THEN Num(0) ELSE old_value
               IN  Num(float_add(old[1], cur_value[1]))
          [] action \in {"MIN", "MAX"} ->
               IF old_value = None THEN cur_value ELSE old_value

\* mix_in_value whose MIN and MAX keep the value of the latest record.
mix_in_value_latest(old_value, key, cur_value) ==
    LET action == FIELD_MAP[key]
    IN  CASE action = "CHECK_EQUAL" ->
               IF old_value = None THEN cur_value ELSE None
          [] action = "AVERAGE" ->
               LET old == IF old_value = None THEN <<0, 0>> ELSE old_value
               IN  <<old[1] + 1, float_add(old[2], cur_value[1])>>
          [] action = "SUM" ->
               LET old == IF old_value = None THEN Num(0) ELSE old_value
               IN  Num(float_add(old[1], cur_value[1]))
          [] action \in {"MIN", "MAX"} -> cur_value

\* BinningOp.mix_in_value, when it does not raise.  The CHECK_EQUAL branch
\* returns cur_value when nothing is stored; when the stored value equals
\* cur_value it reaches the end of the function, which returns None.
mix_in_value(old_value, key, cur_value) ==
    LET action == FIELD_MAP[key]
    IN  CASE action = "CHECK_EQUAL" ->
               IF old_value = None THEN cur_value ELSE None
          [] action = "AVERAGE" ->
               LET old == IF old_value = None THEN <<0, 0>> ELSE old_value
               IN  <<old[1] + 1, float_add(old[2], cur_value[1])>>
          [] action = "SUM" ->
               LET old == IF old_value = None THEN Num(0) ELSE old_value
               IN  Num(float_add(old[1], cur_value[1]))
          [] action = "MIN" ->
               IF old_value = None THEN cur_value
               ELSE Num(Min2(old_value[1], cur_value[1]))
          [] action = "MAX" ->
               IF old_value = None THEN cur_value
               ELSE Num(Max2(old_value[1], cur_value[1]))

\* BinningOp.complete_bin raises: the key is never to be binned, or the
\* AVERAGE division cur_bin[1] / cur_bin[0] has nothing to divide (None is not
\* subscriptable) or divides by a count of zero.
CompleteRaises(key, cur_bin) ==
    \/ FIELD_MAP[key] = "NULL"
    \/ FIELD_MAP[key] = "AVERAGE" /\ (cur_bin = None \/ cur_bin[1] = 0)

\* complete_bin that passes every accumulator through.
complete_bin_passthrough(key, cur_bin) == cur_bin

\* BinningOp.complete_bin, when it does not raise: AVERAGE gives sum / count,
\* the other actions pass the accumulated value through.
complete_bin(key, cur_bin) ==
    IF FIELD_MAP[key] = "AVERAGE"
    THEN Num(float_div(cur_bin[2], cur_bin[1]))
    ELSE cur_bin

----------------------------------------------------------------------------
(* kleio: bin_data *)

\* A datetime is [year, month, day, hour]: the measurements are hourly.
IsLeap(y) == (y % 4 = 0 /\ y % 100 # 0) \/ y % 400 = 0

DaysIn(y, m) ==
    IF m = 2 THEN (IF IsLeap(y) THEN 29 ELSE 28)
    ELSE IF m \in {4, 6, 9, 11} THEN 30 ELSE 31

\* ele['time'] - timedelta(days=1)
MinusOneDay(t) ==
    IF t.day > 1 THEN [t EXCEPT !.day = t.day - 1]
    ELSE IF t.month > 1
         THEN [t EXCEPT !.month = t.month - 1, !.day = DaysIn(t.year, t.month - 1)]
         ELSE [t EXCEPT !.year = t.year - 1, !.month = 12, !.day = 31]

Pad2(n) == IF n < 10 THEN "0" \o ToString(n) ELSE ToString(n)

\* strftime("%Y%m%d") of a datetime of a four-digit year.
strftime_Ymd(t) == ToString(t.year) \o Pad2(t.month) \o Pad2(t.day)

\* base_date without the step back of hour 0.
base_date_of_stamp(t) == strftime_Ymd(t)

\* The date of the bin of a record: hour 0 closes the day before.
base_date(t) ==
    IF t.hour = 0 THEN strftime_Ymd(MinusOneDay(t)) ELSE strftime_Ymd(t)

\* time_key with the daily key taken from the date of the stamp.
time_key_daily_of_stamp(bt, t) ==
    IF bt = "daily" THEN base_date_of_stamp(t)
    ELSE IF 1 <= t.hour /\ t.hour <= 12
         THEN base_date(t) \o "-AM"
         ELSE base_date(t) \o "-PM"

\* time_key with the halves cut by the clock: AM from 0 to 11.
time_key_by_clock(bt, t) ==
    IF bt = "daily" THEN base_date(t)
    ELSE IF t.hour <= 11
         THEN base_date(t) \o "-AM"
         ELSE base_date(t) \o "-PM"

\* The key of the bin of a record under a bin type.
time_key(bt, t) ==
    IF bt = "daily" THEN base_date(t)
    ELSE IF 1 <= t.hour /\ t.hour <= 12
         THEN base_date(t) \o "-AM"
         ELSE base_date(t) \o "-PM"

\* An ordered dict is a sequence of <<key, value>> pairs: k in d, d[k], and
\* d[k] = v, which keeps the place of a key already there.
Has(d, k) == \E n \in DOMAIN d : d[n][1] = k
Get(d, k) == d[CHOOSE n \in DOMAIN d : d[n][1] = k][2]
Put(d, k, v) ==
    IF Has(d, k)
    THEN [n \in DOMAIN d |-> IF d[n][1] = k THEN <<k, v>> ELSE d[n]]
    ELSE Append(d, <<k, v>>)

\* out_data_map[dl_id], a defaultdict(dict): an empty dict when never set.
StationBins(m, dl_id) == IF Has(m, dl_id) THEN Get(m, dl_id) ELSE << >>

\* NewBin that puts the date of the record's own stamp in place of the time.
NewBinStampDate(ele, tk) ==
    [k \in DOMAIN ele |->
        IF k = "station" THEN ele.station
        ELSE IF k = "time" THEN strftime_Ymd(ele.time) ELSE None]

\* Lines 410-422: the sensor_data of a bin that is new, with the station, the
\* bin's key in place of the time, and None for every other column.
NewBin(ele, tk) ==
    [k \in DOMAIN ele |->
        IF k = "station" THEN ele.station ELSE IF k = "time" THEN tk ELSE None]

\* Lines 425-426 and 435-436: the columns of a dict that are handed to
\* mix_in_value, or to complete_bin.
MixedIn(ele) == {k \in DOMAIN ele : is_binnable_col(k)}

\* Lines 424-428 raise on this record.
FoldRaises(sensor_data, ele) ==
    \E k \in DOMAIN ele :
        is_binnable_col(k) /\ MixInRaises(sensor_data[k], k, ele[k])

\* Lines 424-428: every binnable column of the record is mixed into the bin.
Fold(sensor_data, ele) ==
    [k \in DOMAIN sensor_data |->
        IF is_binnable_col(k)
        THEN mix_in_value(sensor_data[k], k, ele[k])
        ELSE sensor_data[k]]

\* The test of line 411 taken as true for every record.
NeedsNewBinAlways(m, dl_id, tk) == TRUE

\* Line 411: the record's bin is not in the map yet.
NeedsNewBin(m, dl_id, tk) == ~Has(m, dl_id) \/ ~Has(StationBins(m, dl_id), tk)

\* Lines 410-422: the map once the bin of the record is in it.
BinOpened(bt, m, ele) ==
    LET dl_id == ele.station
        tk    == time_key(bt, ele.time)
    IN  IF NeedsNewBin(m, dl_id, tk)
        THEN Put(m, dl_id, Put(StationBins(m, dl_id), tk, NewBin(ele, tk)))
        ELSE m

\* One iteration of "for ele in data" raises (in mix_in_value).
BinStepRaises(bt, m, ele) ==
    FoldRaises(Get(Get(BinOpened(bt, m, ele), ele.station), time_key(bt, ele.time)), ele)

\* The map after one iteration of "for ele in data" that does not raise.
BinStep(bt, m, ele) ==
    LET dl_id  == ele.station
        tk     == time_key(bt, ele.time)
        opened == BinOpened(bt, m, ele)
        dl     == Get(opened, dl_id)
    IN  Put(opened, dl_id, Put(dl, tk, Fold(Get(dl, tk), ele)))

\* Lines 435-437 on one bin.
CompleteSensorData(sensor_data) ==
    [k \in DOMAIN sensor_data |->
        IF is_binnable_col(k) THEN complete_bin(k, sensor_data[k]) ELSE sensor_data[k]]

BinCompleteRaises(sensor_data) ==
    \E k \in DOMAIN sensor_data :
        is_binnable_col(k) /\ CompleteRaises(k, sensor_data[k])

\* The bins of the map, station by station, in the order of the dicts.
RECURSIVE Flatten(_)
Flatten(m) ==
    IF m = << >> THEN << >>
    ELSE [n \in DOMAIN m[1][2] |-> m[1][2][n][2]] \o Flatten(Tail(m))

\* Lines 389-428 from the map m on: the map after the records recs, or the
\* map at the iteration that raises.
RECURSIVE BinAll(_, _, _)
BinAll(bt, m, recs) ==
    IF recs = << >> THEN [raised |-> FALSE, map |-> m]
    ELSE IF BinStepRaises(bt, m, Head(recs))
         THEN [raised |-> TRUE, map |-> BinOpened(bt, m, Head(recs))]
         ELSE BinAll(bt, BinStep(bt, m, Head(recs)), Tail(recs))

\* bin_data(bin_type, data) as a function of its arguments: whether it
\* raises, and the list it returns when it does not.
bin_data(bt, recs) ==
    LET r    == BinAll(bt, << >>, recs)
        bins == Flatten(r.map)
    IN  IF r.raised \/ \E n \in DOMAIN bins : BinCompleteRaises(bins[n])
        THEN [raised |-> TRUE, output_list |-> << >>]
        ELSE [raised |-> FALSE,
              output_list |-> [n \in DOMAIN bins |-> CompleteSensorData(bins[n])]]

\* The stations, the measurement times and the sensor columns of the input:
\* two stations; the hours of one query window; one sensor column per query,
\* of every action, one that is never binned and one without an action.
Stations == {"HUR", "MTB"}

\* The query windows (main selects the rows between a start and an end time):
\* noon, the last hour of the AM half, and the midnight that closes that day;
\* 13:00, the first hour of the PM half, and the midnight that closes the
\* year; the midnight that closes a leap day and 01:00, the first hour of the
\* AM half of the day after.
Windows ==
    { { [year |-> 2019, month |-> 1, day |-> 1, hour |-> 12],
        [year |-> 2019, month |-> 1, day |-> 2, hour |-> 0] },
      { [year |-> 2018, month |-> 12, day |-> 31, hour |-> 13],
        [year |-> 2019, month |-> 1, day |-> 1, hour |-> 0] },
      { [year |-> 2020, month |-> 3, day |-> 1, hour |-> 0],
        [year |-> 2020, month |-> 3, day |-> 1, hour |-> 1] } }

Times == UNION Windows

Sensors ==
    { "is_24hr", "temperature", "precipitation", "wind_speed_minimum",
      "wind_speed_maximum", "data_logger_id", "snowfall_24_hour" }

\* The values a sensor column holds, none of them NULL: a flag of 0 or 1; a
\* reading of 1.0 or of 2^MantBits, the least float to which adding 1.0
\* rounds; one value for a column that is never aggregated.
SensorValues(sensor) ==
    IF sensor = "is_24hr" THEN {Num(0), Num(1)}
    ELSE IF is_binnable_col(sensor)
         THEN {Num(2^MantBits), Num(2^MantBits * 2^MantBits)}
         ELSE {Num(2^MantBits)}

\* The rows a query for one sensor column can return from one window
\* (DictCursor rows).
Rows(sensor, window) ==
    { [k \in {"station", "time", sensor} |->
          IF k = "station" THEN s ELSE IF k = "time" THEN t ELSE v] :
      s \in Stations, t \in window, v \in SensorValues(sensor) }

\* No bias-correction script is running while kleio runs.
CFIdle ==
    /\ variant = "gen_bc"
    /\ obs = << >> /\ fcst = << >> /\ cf = << >>
    /\ bc_fcst = << >> /\ raw_bias = << >> /\ bc_bias = << >>
    /\ i = 0
    /\ cf_pc = "idle"
    /\ branch = << >>
    /\ writes = {}

\* bin_data(bin_type, data) is entered: out_data_map is empty.
InitBin ==
    /\ bin_type \in {"daily", "ampm"}
    /\ \E sensor \in Sensors, window \in Windows :
          data \in UNION {[1..n -> Rows(sensor, window)] : n \in 0..MaxRecs}
    /\ idx = 0
    /\ out_data_map = << >>
    /\ output_list = << >>
    /\ bin_pc = "binning"
    /\ keys = << >>
    /\ calls = {}
    /\ CFIdle
    /\ MainIdle
    /\ CronIdle

\* One iteration of "for ele in data": the record's bin is made if it is new,
\* and the record is mixed in.  An exception of mix_in_value ends bin_data.
BinRecord ==
    /\ bin_pc = "binning"
    /\ idx < Len(data)
    /\ LET ele == data[idx + 1]
       IN  IF BinStepRaises(bin_type, out_data_map, ele)
           THEN /\ bin_pc' = "raised"
                /\ out_data_map' = BinOpened(bin_type, out_data_map, ele)
                /\ idx' = idx
           ELSE /\ bin_pc' = bin_pc
                /\ out_data_map' = BinStep(bin_type, out_data_map, ele)
                /\ idx' = idx + 1
    /\ keys' = Append(keys, <<data[idx + 1].station,
                                time_key(bin_type, data[idx + 1].time)>>)
    /\ calls' = calls \cup {<<"mix_in_value", k>> : k \in MixedIn(data[idx + 1])}
    /\ UNCHANGED <<bin_type, data, output_list, cfVars, mainVars, cronVars>>

\* Lines 430-440: every bin is completed in place and put on the output
\* list, which bin_data returns.
ReturnBins ==
    /\ bin_pc = "binning"
    /\ idx = Len(data)
    /\ IF \E n \in DOMAIN Flatten(out_data_map) : BinCompleteRaises(Flatten(out_data_map)[n])
       THEN /\ bin_pc' = "raised"
            /\ UNCHANGED <<out_data_map, output_list>>
       ELSE /\ bin_pc' = "returned"
            /\ out_data_map' =
                  [s \in DOMAIN out_data_map |->
                      <<out_data_map[s][1],
                        [n \in DOMAIN out_data_map[s][2] |->
                            <<out_data_map[s][2][n][1],
                              CompleteSensorData(out_data_map[s][2][n][2])>>]>>]
            /\ output_list' =
                  [n \in DOMAIN Flatten(out_data_map) |->
                      CompleteSensorData(Flatten(out_data_map)[n])]
    /\ calls' = calls \cup
                    UNION { {<<"complete_bin", k>> : k \in MixedIn(Flatten(out_data_map)[n])} :
                            n \in DOMAIN Flatten(out_data_map) }
    /\ UNCHANGED <<bin_type, data, idx, keys, cfVars, mainVars, cronVars>>

NextBin == BinRecord \/ ReturnBins

SpecBin == InitBin /\ [][NextBin]_vars

----------------------------------------------------------------------------
(* datetime.strptime on the formats of the two command lines *)

\* A datetime is [year, month, day, hour, minute, second].
Midnight(y, m, d) ==
    [year |-> y, month |-> m, day |-> d, hour |-> 0, minute |-> 0, second |-> 0]

DigitChars == {"0", "1", "2", "3", "4", "5", "6", "7", "8", "9"}
DigitValue(c) == CHOOSE n \in 0..9 : ToString(n) = c

\* int() of a string of digits.
RECURSIVE Number(_)
Number(cs) ==
    IF cs = << >> THEN 0
    ELSE 10 * Number(SubSeq(cs, 1, Len(cs) - 1)) + DigitValue(cs[Len(cs)])

AllDigits(cs) == \A n \in DOMAIN cs : cs[n] \in DigitChars

\* The directives of _strptime as regular expressions.
\* %Y: \d\d\d\d
MatchesY(cs) == Len(cs) = 4 /\ AllDigits(cs)
\* %m: 1[0-2]|0[1-9]|[1-9]
MatchesMonth(cs) ==
    /\ Len(cs) \in {1, 2}
    /\ AllDigits(cs)
    /\ Number(cs) \in 1..12
\* %d: 3[0-1]|[1-2]\d|0[1-9]|[1-9]| [1-9]
MatchesDay(cs) ==
    \/ Len(cs) \in {1, 2} /\ AllDigits(cs) /\ Number(cs) \in 1..31
    \/ Len(cs) = 2 /\ cs[1] = " " /\ cs[2] \in DigitChars \ {"0"}
\* %H: 2[0-3]|[0-1]\d|\d      %M: [0-5]\d|\d      %S: 6[0-1]|[0-5]\d|\d
MatchesClock(cs, max) ==
    /\ Len(cs) \in {1, 2}
    /\ AllDigits(cs)
    /\ Number(cs) <= max

\* int() of what %d matched: int(" 5") is 5.
DayValue(cs) == IF cs[1] = " " THEN DigitValue(cs[2]) ELSE Number(cs)

\* The lengths <<month, day>> of the two fields behind the year, in the order
\* in which the regular expression tries them: two characters before one.
DateSplits == << <<2, 2>>, <<2, 1>>, <<1, 2>>, <<1, 1>> >>

MatchesSplit(cs, n) ==
    /\ Len(cs) = 4 + DateSplits[n][1] + DateSplits[n][2]
    /\ MatchesY(SubSeq(cs, 1, 4))
    /\ MatchesMonth(SubSeq(cs, 5, 4 + DateSplits[n][1]))
    /\ MatchesDay(SubSeq(cs, 5 + DateSplits[n][1], Len(cs)))

\* The outcome of a call that may raise ValueError.
Raised == [raised |-> TRUE, value |-> Midnight(1, 1, 1)]
Returned(v) == [raised |-> FALSE, value |-> v]

\* strptime(cs, "%Y%m%d"): the whole string has to match, and the fields have
\* to name a day of the calendar (the years of datetime begin with 1).
strptime_date(cs) ==
    IF ~\E n \in DOMAIN DateSplits : MatchesSplit(cs, n) THEN Raised
    ELSE LET n  == CHOOSE k \in DOMAIN DateSplits :
                       /\ MatchesSplit(cs, k)
                       /\ \A j \in 1..(k - 1) : ~MatchesSplit(cs, j)
             ml == DateSplits[n][1]
             y  == Number(SubSeq(cs, 1, 4))
             m  == Number(SubSeq(cs, 5, 4 + ml))
             d  == DayValue(SubSeq(cs, 5 + ml, Len(cs)))
         IN  IF y = 0 \/ d > DaysIn(y, m) THEN Raised ELSE Returned(Midnight(y, m, d))

\* The positions of a character in a string.
Positions(cs, c) == {n \in DOMAIN cs : cs[n] = c}
Largest(S) == CHOOSE n \in S : \A k \in S : k <= n

\* The fields of "%H:%M" (2 fields) or "%H:%M:%S" (3 fields): the pieces
\* between the colons.
ClockFields(cs) ==
    LET colons == Positions(cs, ":")
    IN  IF colons = {} THEN <<cs>>
        ELSE LET first == CHOOSE n \in colons : \A k \in colons : n <= k
                 last  == Largest(colons)
             IN  IF first = last
                 THEN <<SubSeq(cs, 1, first - 1), SubSeq(cs, first + 1, Len(cs))>>
                 ELSE <<SubSeq(cs, 1, first - 1), SubSeq(cs, first + 1, last - 1),
                        SubSeq(cs, last + 1, Len(cs))>>

\* strptime(cs, "%Y%m%d %H:%M") for fields = 2 and strptime(cs,
\* "%Y%m%d %H:%M:%S") for fields = 3.  The blank of the format stands for one or
\* more blanks; the clock is what follows the last of them.  %S takes 60 and
\* 61, which datetime then refuses.
strptime_clock(cs, fields) ==
    LET blanks == Positions(cs, " ")
    IN  IF blanks = {} THEN Raised
        ELSE LET last    == Largest(blanks)
                 before  == {n \in 1..last : cs[n] # " "}
                 clock   == ClockFields(SubSeq(cs, last + 1, Len(cs)))
             IN  IF before = {} \/ Len(clock) # fields THEN Raised
                 ELSE LET date == strptime_date(SubSeq(cs, 1, Largest(before)))
                      IN  IF \/ date.raised
                             \/ ~MatchesClock(clock[1], 23)
                             \/ ~MatchesClock(clock[2], 59)
                             \/ (fields = 3 /\ ~MatchesClock(clock[3], 61))
                             \/ (fields = 3 /\ Number(clock[3]) > 59)
                          THEN Raised
                          ELSE Returned([date.value EXCEPT
                                           !.hour = Number(clock[1]),
                                           !.minute = Number(clock[2]),
                                           !.second = IF fields = 3 THEN Number(clock[3])
                                                      ELSE 0])

----------------------------------------------------------------------------
(* kleio.py: configure_script and main *)

\* parse_dt_str: the first of the formats "%Y%m%d %H:%M:%S", "%Y%m%d %H:%M"
\* and "%Y%m%d" that parses; when none does, a message and exit(1).
parse_dt_str(dt_str) ==
    IF ~strptime_clock(dt_str, 3).raised THEN strptime_clock(dt_str, 3)
    ELSE IF ~strptime_clock(dt_str, 2).raised THEN strptime_clock(dt_str, 2)
    ELSE strptime_date(dt_str)

\* t + timedelta(days=1)
PlusOneDay(t) ==
    IF t.day < DaysIn(t.year, t.month) THEN [t EXCEPT !.day = t.day + 1]
    ELSE IF t.month < 12 THEN [t EXCEPT !.month = t.month + 1, !.day = 1]
    ELSE [t EXCEPT !.year = t.year + 1, !.month = 1, !.day = 1]

\* t + timedelta(seconds=1)
PlusOneSecond(t) ==
    IF t.second < 59 THEN [t EXCEPT !.second = t.second + 1]
    ELSE IF t.minute < 59 THEN [t EXCEPT !.minute = t.minute + 1, !.second = 0]
    ELSE IF t.hour < 23 THEN [t EXCEPT !.hour = t.hour + 1, !.minute = 0, !.second = 0]
    ELSE [PlusOneDay(t) EXCEPT !.hour = 0, !.minute = 0, !.second = 0]

\* Mutant of shifted_start: the start of a date is left at 00:00:00.
shifted_start_at_midnight(arg, parsed) == parsed

\* Lines 341-344: a start given as a date (eight characters) is moved to
\* 00:00:01 of that day.
shifted_start(arg, parsed) == IF Len(arg) = 8 THEN PlusOneSecond(parsed) ELSE parsed

\* Mutant of shifted_end: the end of a date is left at 00:00:00 of that day.
shifted_end_same_day(arg, parsed) == parsed

\* Lines 345-348: an end given as a date (eight characters) is moved to 00:00
\* of the day after.
shifted_end(arg, parsed) == IF Len(arg) = 8 THEN PlusOneDay(parsed) ELSE parsed

\* The timecode of a row, a datetime on the hour, among the datetimes.
Timecode(t) ==
    [year |-> t.year, month |-> t.month, day |-> t.day, hour |-> t.hour,
     minute |-> 0, second |-> 0]

\* a <= b on datetimes (MySQL compares the timecode with the formatted
\* '%Y-%m-%d %H:%M:%S' string of the argument as datetimes).
DayKey(t) == t.year * 10000 + t.month * 100 + t.day
SecondOfDay(t) == t.hour * 3600 + t.minute * 60 + t.second
DatetimeLe(a, b) ==
    \/ DayKey(a) < DayKey(b)
    \/ DayKey(a) = DayKey(b) /\ SecondOfDay(a) <= SecondOfDay(b)

\* The WHERE clause of the query in main (lines 458-467).
Selected(row, start_dt, end_dt, station_list) ==
    /\ DatetimeLe(start_dt, Timecode(row.time))
    /\ DatetimeLe(Timecode(row.time), end_dt)
    /\ \E n \in DOMAIN station_list : station_list[n] = row.station

\* cursor.fetchall() for the query: the selected rows, in the order of the table.
RECURSIVE fetchall(_, _, _, _)
fetchall(rows, start_dt, end_dt, station_list) ==
    IF rows = << >> THEN << >>
    ELSE (IF Selected(Head(rows), start_dt, end_dt, station_list)
          THEN <<Head(rows)>> ELSE << >>)
         \o fetchall(Tail(rows), start_dt, end_dt, station_list)

\* Every station name of the model, in the order of Python's string comparison.
StationOrder == <<"HUR", "MTB">>

\* The rows of a station, in their order.
RECURSIVE RowsOfStation(_, _)
RowsOfStation(rows, s) ==
    IF rows = << >> THEN << >>
    ELSE (IF Head(rows).station = s THEN <<Head(rows)>> ELSE << >>)
         \o RowsOfStation(Tail(rows), s)

\* data.sort(key=lambda x: x['station']): a stable sort.
RECURSIVE SortedFrom(_, _)
SortedFrom(rows, n) ==
    IF n > Len(StationOrder) THEN << >>
    ELSE RowsOfStation(rows, StationOrder[n]) \o SortedFrom(rows, n + 1)

sort_by_station(rows) == SortedFrom(rows, 1)

\* strftime('%Y%m%d %H:%M:%S') of a timecode.
strftime_YmdHMS(t) == strftime_Ymd(t) \o " " \o Pad2(t.hour) \o ":00:00"

\* The -s arguments of a run: two dates, the first of them a second time with
\* seven characters (month 01, day 1), a date with a time, a date with
\* dashes, and no argument.
S20181231 == <<"2", "0", "1", "8", "1", "2", "3", "1">>
S20190101 == <<"2", "0", "1", "9", "0", "1", "0", "1">>
S20190102 == <<"2", "0", "1", "9", "0", "1", "0", "2">>
StartArguments ==
    { None, S20181231, S20190101,
      <<"2", "0", "1", "9", "0", "1", "1">>,
      S20190101 \o <<" ", "1", "2", ":", "0", "0">>,
      <<"2", "0", "1", "9", "-", "0", "1", "-", "0", "1">> }

\* The -e arguments of a run: none, two dates, and a date with a time.
EndArguments ==
    { None, S20190101, S20190102,
      S20190102 \o <<" ", "0", "0", ":", "0", "0", ":", "0", "0">> }

\* The hours of the measurement table: around the midnights that open and
\* close 2018-12-31, 2019-01-01 and 2019-01-02.
TableTimes ==
    << [year |-> 2018, month |-> 12, day |-> 31, hour |-> 0],
       [year |-> 2018, month |-> 12, day |-> 31, hour |-> 13],
       [year |-> 2019, month |-> 1, day |-> 1, hour |-> 0],
       [year |-> 2019, month |-> 1, day |-> 1, hour |-> 12],
       [year |-> 2019, month |-> 1, day |-> 2, hour |-> 0],
       [year |-> 2019, month |-> 1, day |-> 2, hour |-> 1],
       [year |-> 2019, month |-> 1, day |-> 3, hour |-> 0] >>

\* A row of the query for the precipitation column.
MeasurementRow(s, t) == [station |-> s, time |-> t, precipitation |-> Num(2^MantBits)]

\* The rows the table may hold, in the order in which the database yields
\* them: one station's rows by time, and one row of another station.
TableRows ==
    [n \in 1..(Len(TableTimes) + 1) |->
        IF n <= Len(TableTimes) THEN MeasurementRow("HUR", TableTimes[n])
        ELSE MeasurementRow("MTB", TableTimes[4])]

\* The tables: the rows with the numbers of a set, in their order.
RECURSIVE TableOf(_, _)
TableOf(numbers, n) ==
    IF n > Len(TableRows) THEN << >>
    ELSE (IF n \in numbers THEN <<TableRows[n]>> ELSE << >>) \o TableOf(numbers, n + 1)

\* parser.parse_args() has returned (line 316).  --zone is left at gmt, -S is
\* precipitation, and none of --id, --csv, --header and --sql is given.
InitMain ==
    /\ main_pc = "parsed"
    /\ start_time \in StartArguments
    /\ end_time \in EndArguments
    /\ argv = [start |-> start_time, end |-> end_time]
    /\ stations \in {<< >>, <<"HUR">>}
    /\ bin_type \in {"daily", "ampm", "None"}
    /\ \E numbers \in SUBSET (1..Len(TableRows)) : table = TableOf(numbers, 1)
    /\ data = << >>
    /\ idx = 0
    /\ out_data_map = << >>
    /\ output_list = << >>
    /\ bin_pc = "idle"
    /\ keys = << >>
    /\ calls = {}
    /\ CFIdle
    /\ CronIdle

\* configure_script, lines 329-372: the two times are parsed (a time that does
\* not parse ends the run), dates are moved to the ends of their days, and
\* without a station list the times are dropped.
ConfigureScript ==
    /\ main_pc = "parsed"
    /\ IF start_time = None
       THEN /\ main_pc' = "configured"
            /\ UNCHANGED <<start_time, end_time>>
       ELSE LET end == IF end_time = None THEN start_time ELSE end_time
                parsed_start_time == parse_dt_str(start_time)
                parsed_end_time   == parse_dt_str(end)
            IN  IF parsed_start_time.raised \/ parsed_end_time.raised
                THEN /\ main_pc' = "exited"
                     /\ start_time' = start_time
                     /\ end_time' = end
                ELSE /\ main_pc' = "configured"
                     /\ IF stations = << >>
                        THEN start_time' = None /\ end_time' = None
                        ELSE /\ start_time' =
                                  shifted_start(start_time, parsed_start_time.value)
                             /\ end_time' = shifted_end(end, parsed_end_time.value)
    /\ UNCHANGED <<argv, stations, table, binVars, cfVars, cronVars>>

\* main, lines 449-481: the query is run and its rows are fetched; with --bin
\* they are handed to bin_data.
RunQuery ==
    /\ main_pc = "configured"
    /\ start_time # None
    /\ data' = fetchall(table, start_time, end_time, stations)
    /\ IF bin_type = "None"
       THEN main_pc' = "fetched" /\ bin_pc' = bin_pc
       ELSE main_pc' = "queried" /\ bin_pc' = "binning"
    /\ UNCHANGED <<bin_type, idx, out_data_map, output_list, keys, calls,
                   mainVarsButPc, cfVars, cronVars>>

\* main, lines 494-549: without a start time the stations or the sensors are
\* listed.
ListInstead ==
    /\ main_pc = "configured"
    /\ start_time = None
    /\ main_pc' = "listing"
    /\ UNCHANGED <<mainVarsButPc, binVars, cfVars, cronVars>>

\* main, lines 480-492: data is what bin_data returned, or the rows with
\* their times formatted; it is sorted by station and printed.
PrintRows ==
    /\ \/ main_pc = "queried" /\ bin_pc = "returned"
       \/ main_pc = "fetched"
    /\ data' = IF main_pc = "queried" THEN sort_by_station(output_list)
               ELSE LET sorted == sort_by_station(data)
                    IN  [n \in DOMAIN sorted |->
                            [sorted[n] EXCEPT !.time = strftime_YmdHMS(sorted[n].time)]]
    /\ main_pc' = "printed"
    /\ UNCHANGED <<bin_type, idx, out_data_map, output_list, bin_pc, keys, calls,
                   mainVarsButPc, cfVars, cronVars>>

NextMain == ConfigureScript \/ RunQuery \/ ListInstead \/ BinRecord \/ ReturnBins \/ PrintRows

SpecMain == InitMain /\ [][NextMain]_vars

----------------------------------------------------------------------------
(* daily_bc_gen.py: configure_script and main *)

\* The date arguments of a run: a date as the help text asks for it, a day that
\* no calendar has, a date with dashes, and a date of seven characters.
CronDates ==
    { <<"2", "0", "1", "9", "0", "1", "0", "1">>,
      <<"2", "0", "1", "9", "0", "2", "3", "0">>,
      <<"2", "0", "1", "9", "-", "0", "1", "-", "0", "1">>,
      <<"2", "0", "1", "9", "1", "1", "1">> }

\* The DEFAULT section of the config file, with and without KLEIO_PATH.
CronConfigs == {{"KLEIO_PATH"}, {}}

\* What a kleio process can give back: its return code and the lines it wrote
\* to stderr.
KleioResults == [returncode : {0, 1}, stderr : {<< >>, <<"line">>}]

\* parser.parse_args() has returned (line 62); -s and -o are required, -e is not.
InitCron ==
    /\ cron_pc = "parsed"
    /\ start_date \in CronDates
    /\ end_date \in CronDates \cup {None}
    /\ out_dir \in {"missing", "empty", "not_empty"}
    /\ config \in CronConfigs
    /\ cron_stderr = << >>
    /\ kleio_command = None
    /\ kleio_result = None
    /\ CFIdle
    /\ BinIdle
    /\ MainIdle

\* Lines 64-76: a missing end date is the start date; both are parsed, and a
\* ValueError of either is handled by the except block, which writes its
\* message and ends: the statement behind the try statement is the next to
\* run, as it is when both dates parse.
ValidateDates ==
    /\ cron_pc = "parsed"
    /\ LET end == IF end_date = None THEN start_date ELSE end_date
       IN  /\ end_date' = end
           /\ cron_stderr' =
                 IF strptime_date(start_date).raised \/ strptime_date(end).raised
                 THEN Append(cron_stderr, "Invalid start date or end date")
                 ELSE cron_stderr
    /\ cron_pc' = "dates_checked"
    /\ UNCHANGED <<start_date, out_dir, config, kleio_command, kleio_result,
                   cfVars, binVars, mainVars>>

\* Lines 78-83: the output directory is made if it is missing; a directory
\* with entries draws a warning.
PrepareOutDir ==
    /\ cron_pc = "dates_checked"
    /\ out_dir' = IF out_dir = "missing" THEN "empty" ELSE out_dir
    /\ cron_stderr' = IF out_dir = "not_empty"
                      THEN Append(cron_stderr, "Warning!  Output directory is not empty")
                      ELSE cron_stderr
    /\ cron_pc' = "out_dir_ready"
    /\ UNCHANGED <<start_date, end_date, config, kleio_command, kleio_result,
                   cfVars, binVars, mainVars>>

\* Lines 85-90: config['DEFAULT']['KLEIO_PATH'] raises KeyError when the key is
\* missing; otherwise configure_script returns args.
ReadConfig ==
    /\ cron_pc = "out_dir_ready"
    /\ cron_pc' = IF "KLEIO_PATH" \in config THEN "configured" ELSE "raised"
    /\ UNCHANGED <<start_date, end_date, out_dir, config, cron_stderr, kleio_command,
                   kleio_result, cfVars, binVars, mainVars>>

\* Lines 99-105: main builds the command from the arguments as they are and
\* runs it; communicate() waits for the process to end.
LaunchKleio ==
    /\ cron_pc = "configured"
    /\ kleio_command' = <<"KLEIO_PATH", "-s", start_date, "-e", end_date,
                          "--bin", "ampm", "-L", "-S", "precipitation">>
    /\ kleio_result' \in KleioResults
    /\ cron_pc' = "kleio_done"
    /\ UNCHANGED <<start_date, end_date, out_dir, config, cron_stderr,
                   cfVars, binVars, mainVars>>

\* Lines 107-117: kleio's stderr is passed on and written to a file in the
\* output directory; a return code other than 0 ends the script.
ReportKleio ==
    /\ cron_pc = "kleio_done"
    /\ LET passed == IF kleio_result.stderr # << >>
                     THEN Append(cron_stderr, "kleio.py stderr >>>>")
                     ELSE cron_stderr
       IN  IF kleio_result.returncode # 0
           THEN /\ cron_stderr' = Append(passed, "Error running kleio command")
                /\ cron_pc' = "exited"
           ELSE /\ cron_stderr' = passed
                /\ cron_pc' = "loading"
    /\ out_dir' = IF kleio_result.stderr # << >> THEN "not_empty" ELSE out_dir
    /\ UNCHANGED <<start_date, end_date, config, kleio_command, kleio_result,
                   cfVars, binVars, mainVars>>

\* Lines 119-130: the lines of kleio's stdout are written to a file in the
\* output directory.
LoadOutput ==
    /\ cron_pc = "loading"
    /\ out_dir' = "not_empty"
    /\ cron_pc' = "finished"
    /\ UNCHANGED <<start_date, end_date, config, cron_stderr, kleio_command,
                   kleio_result, cfVars, binVars, mainVars>>

NextCron ==
    ValidateDates \/ PrepareOutDir \/ ReadConfig \/ LaunchKleio \/ ReportKleio \/ LoadOutput

SpecCron == InitCron /\ [][NextCron]_vars

----------------------------------------------------------------------------
(* Claims on the time binning *)

\* The CHECK_EQUAL columns of a record.
CheckEqualColumns(ele) ==
    {k \in DOMAIN ele : k \in DOMAIN FIELD_MAP /\ FIELD_MAP[k] = "CHECK_EQUAL"}

\* The records among the first n of the input that fall into bin (dl_id, tk).
FoldedInto(dl_id, tk, n) ==
    {m \in 1..n : data[m].station = dl_id /\ time_key(bin_type, data[m].time) = tk}

\* The bins the map holds, as <<station, time_key, sensor_data>>.
BinsOfMap ==
    UNION { { <<out_data_map[s][1], out_data_map[s][2][n][1], out_data_map[s][2][n][2]>> :
                n \in DOMAIN out_data_map[s][2] } : s \in DOMAIN out_data_map }

\* C1 (as claimed): if the records folded into one bin do not all carry the
\* same value for a CHECK_EQUAL field, bin_data raises and returns nothing:
\* whenever bin_data has returned, the records of every bin agree on is_24hr.
C1_DisagreementRaises ==
    bin_pc = "returned" =>
        \A a \in 1..Len(data), b \in 1..Len(data) :
            ( /\ data[a].station = data[b].station
              /\ time_key(bin_type, data[a].time) = time_key(bin_type, data[b].time) )
            => \A k \in CheckEqualColumns(data[a]) : data[a][k] = data[b][k]

\* C2 (as claimed): if all the records folded into a bin so far carry the same
\* value v for a CHECK_EQUAL field, the bin's accumulator holds v after every
\* fold step, and so does the record bin_data returns for the bin.
C2_EqualValuePassesThrough ==
    /\ bin_pc \in {"binning", "returned"} =>
          \A bin \in BinsOfMap :
              LET folded == FoldedInto(bin[1], bin[2], idx)
              IN  \A k \in CheckEqualColumns(bin[3]) :
                      \A v \in {data[m][k] : m \in folded} :
                          (\A m \in folded : data[m][k] = v) => bin[3][k] = v
    /\ bin_pc = "returned" =>
          \A n \in DOMAIN output_list :
              LET rec    == output_list[n]
                  folded == { m \in 1..Len(data) :
                                /\ data[m].station = rec.station
                                /\ time_key(bin_type, data[m].time) = rec.time }
              IN  \A k \in CheckEqualColumns(rec) :
                      \A v \in {data[m][k] : m \in folded} :
                          (\A m \in folded : data[m][k] = v) => rec[k] = v

----------------------------------------------------------------------------
(* Claims on the bin of a record *)

\* A calendar of its own for the claims: the number of the day of a date,
\* counted from 0001-01-01, and the date as the digits YYYYMMDD.
DaysBeforeMonth == <<0, 31, 59, 90, 120, 151, 181, 212, 243, 273, 304, 334>>

DayNumber(d) ==
    LET y    == d.year - 1
        leap == (d.year % 4 = 0 /\ d.year % 100 # 0) \/ d.year % 400 = 0
    IN  365 * y + (y \div 4) - (y \div 100) + (y \div 400)
        + DaysBeforeMonth[d.month] + (IF leap /\ d.month > 2 THEN 1 ELSE 0) + d.day

DateOf(t) == [year |-> t.year, month |-> t.month, day |-> t.day]

\* The date one day before the date of t: the one whose day number is one less.
DayBefore(t) ==
    CHOOSE d \in { [year |-> t.year, month |-> t.month, day |-> t.day - 1] }
                 \cup { [year |-> t.year, month |-> t.month - 1, day |-> dd] : dd \in 28..31 }
                 \cup { [year |-> t.year - 1, month |-> 12, day |-> 31] } :
        /\ d.month >= 1 /\ d.day >= 1
        /\ DayNumber(d) = DayNumber(DateOf(t)) - 1

Digits(d) == ToString(d.year * 10000 + d.month * 100 + d.day)

\* The bucket date the specification gives a record stamped t.
AdjustedDate(t) == IF t.hour = 0 THEN DayBefore(t) ELSE DateOf(t)

\* C11: for every record and both bin types, the date of the record's bucket
\* is the record's date minus one day if the record's hour is 0, and the
\* record's own date otherwise; the bucket is in the map under that key.
C11_BucketDate ==
    \A m \in DOMAIN keys :
        LET D == Digits(AdjustedDate(data[m].time))
        IN  /\ keys[m][1] = data[m].station
            /\ keys[m][2] \in {D, D \o "-AM", D \o "-PM"}
            /\ Has(out_data_map, keys[m][1])
            /\ Has(Get(out_data_map, keys[m][1]), keys[m][2])

\* A record stamped 2019-01-02 00:00 has gone to the bucket 20190101-PM under
\* AM/PM binning, and bin_data has returned.
C11_Witness ==
    /\ bin_type = "ampm"
    /\ bin_pc = "returned"
    /\ \E m \in DOMAIN keys :
          /\ data[m].time = [year |-> 2019, month |-> 1, day |-> 2, hour |-> 0]
          /\ keys[m][2] = "20190101-PM"
          /\ \E n \in DOMAIN output_list : output_list[n].time = "20190101-PM"

\* The date strings a key of a record stamped t may start with.
DateStrings(t) == {Digits(DateOf(t)), Digits(DayBefore(t))}

\* C12: with bin type 'ampm' a record is in the AM half iff its hour is in
\* 1..12 and in the PM half iff its hour is in 13..23 or is 0; with bin type
\* 'daily' the key has no half; every record gets exactly one bucket key.
C12_Halves ==
    /\ Len(keys) = (IF bin_pc = "raised" THEN idx + 1 ELSE idx)
    /\ \A m \in DOMAIN keys :
          LET h   == data[m].time.hour
              key == keys[m][2]
              am  == \E b \in DateStrings(data[m].time) : key = b \o "-AM"
              pm  == \E b \in DateStrings(data[m].time) : key = b \o "-PM"
          IN  IF bin_type = "ampm"
              THEN /\ am <=> h \in 1..12
                   /\ pm <=> (h \in 13..23 \/ h = 0)
                   /\ am \/ pm
              ELSE key \in DateStrings(data[m].time)

\* Under AM/PM binning a noon record went to an AM bucket and a midnight
\* record to a PM bucket, and bin_data has returned.
C12_Witness ==
    /\ bin_type = "ampm"
    /\ bin_pc = "returned"
    /\ \E m \in DOMAIN keys : data[m].time.hour = 12 /\ keys[m][2] = "20190101-AM"
    /\ \E m \in DOMAIN keys : data[m].time.hour = 0 /\ keys[m][2] = "20190101-PM"

----------------------------------------------------------------------------
(* Claims on fields without an action *)

\* The fields of the input records that have no entry in FIELD_MAP, the
\* station column (the key of the bucket) set aside.
UnknownFields ==
    UNION { {k \in DOMAIN data[m] : k \notin DOMAIN FIELD_MAP /\ k # "station"} :
            m \in DOMAIN data }

\* C13 (as claimed): if any input record carries a field whose name has no
\* entry in FIELD_MAP, bin_data fails instead of returning output records.
C13_UnknownFieldFails ==
    bin_pc = "returned" => UnknownFields = {}

\* C13 (amended): bin_data skips a field without an entry in FIELD_MAP.  No
\* run raises because of it, and every bucket and every output record holds
\* the station in 'station' and None in any other such field.
C13_UnknownFieldSkipped ==
    /\ UnknownFields # {} => bin_pc # "raised"
    /\ \A bin \in BinsOfMap :
          \A k \in DOMAIN bin[3] :
              k \notin DOMAIN FIELD_MAP =>
                  bin[3][k] = (IF k = "station" THEN bin[1] ELSE None)
    /\ \A n \in DOMAIN output_list :
          \A k \in DOMAIN output_list[n] :
              k \notin DOMAIN FIELD_MAP =>
                  IF k = "station"
                  THEN \E m \in DOMAIN keys :
                           keys[m] = <<output_list[n].station, output_list[n].time>>
                  ELSE output_list[n][k] = None

\* bin_data has returned a record for input that carries snowfall_24_hour.
C13_Witness ==
    /\ bin_pc = "returned"
    /\ "snowfall_24_hour" \in UnknownFields
    /\ \E n \in DOMAIN output_list : output_list[n].snowfall_24_hour = None

----------------------------------------------------------------------------
(* Claims on splitting a bucket *)

\* The records of seq at the positions S, in the order of seq.
SubSeqAt(seq, S) ==
    LET f[n \in 0..Len(seq)] ==
            IF n = 0 THEN << >>
            ELSE IF n \in S THEN Append(f[n - 1], seq[n]) ELSE f[n - 1]
    IN  f[Len(seq)]

\* The positions of the records of the bucket of an output record.
RecordsOf(rec) == {m \in DOMAIN keys : keys[m] = <<rec.station, rec.time>>}

\* The value bin_data gives field k for the records at the positions S, all
\* of one bucket.
SubGroupValue(k, S) == bin_data(bin_type, SubSeqAt(data, S)).output_list[1][k]

\* Two values aggregated under the policy of field k.
Combined(k, a, b) == complete_bin(k, mix_in_value(mix_in_value(None, k, a), k, b))

\* Field k of the output record rec is what its sub-groups S and the rest
\* give when their two values are aggregated again.
SplitAgrees(rec, k, S) ==
    Combined(k, SubGroupValue(k, S), SubGroupValue(k, RecordsOf(rec) \ S)) = rec[k]

\* The fields of an output record with one of the given actions.
FieldsWith(rec, actions) ==
    {k \in DOMAIN rec : k \in DOMAIN FIELD_MAP /\ FIELD_MAP[k] \in actions}

\* C14 (as claimed): for SUM, MIN, MAX and AVERAGE fields and every split of
\* the records of one bucket into two non-empty sub-groups, aggregating each
\* sub-group and then the two results gives the value of aggregating all.
C14_SplitAssociative ==
    bin_pc = "returned" =>
        \A n \in DOMAIN output_list :
            \A k \in FieldsWith(output_list[n], {"SUM", "MIN", "MAX", "AVERAGE"}) :
                \A S \in SUBSET RecordsOf(output_list[n]) :
                    (S # {} /\ S # RecordsOf(output_list[n])) =>
                        SplitAgrees(output_list[n], k, S)

\* C14 (amended): the same for MIN and MAX fields and every split, and for
\* SUM and AVERAGE fields when each sub-group is one record.
C14_SplitAssociativeMinMax ==
    bin_pc = "returned" =>
        \A n \in DOMAIN output_list :
            \A k \in FieldsWith(output_list[n], {"SUM", "MIN", "MAX", "AVERAGE"}) :
                \A S \in SUBSET RecordsOf(output_list[n]) :
                    ( /\ S # {} /\ S # RecordsOf(output_list[n])
                      /\ \/ FIELD_MAP[k] \in {"MIN", "MAX"}
                         \/ Cardinality(RecordsOf(output_list[n])) = 2 ) =>
                        SplitAgrees(output_list[n], k, S)

\* bin_data has returned a bucket of three records whose wind_speed_minimum
\* values differ: it has splits into sub-groups of one and of two records.
C14_Witness ==
    /\ bin_pc = "returned"
    /\ \E n \in DOMAIN output_list :
          LET I == RecordsOf(output_list[n])
          IN  /\ "wind_speed_minimum" \in DOMAIN output_list[n]
              /\ Cardinality(I) = 3
              /\ \E a \in I, b \in I :
                     data[a].wind_speed_minimum # data[b].wind_speed_minimum

----------------------------------------------------------------------------
(* Claims on the order of the input *)

\* The orders of the input: the permutations of its positions.
Orders ==
    {p \in [DOMAIN data -> DOMAIN data] :
        \A a \in DOMAIN data, b \in DOMAIN data : p[a] = p[b] => a = b}

\* The exchanges of two neighbouring records of the input.  Every permutation
\* is a chain of such exchanges, and every order of an input is an input of
\* its own.
Exchanges ==
    { [m \in DOMAIN data |-> IF m = a THEN a + 1 ELSE IF m = a + 1 THEN a ELSE m] :
        a \in 1..(Len(data) - 1) }

Reordered(p) == [m \in DOMAIN data |-> data[p[m]]]

\* The input has a column with one of the given actions.
InputHas(actions) ==
    \E m \in DOMAIN data : FieldsWith(data[m], actions) # {}

\* The records of a list, as a set.
RecordSet(list) == {list[n] : n \in DOMAIN list}

\* C15 (as claimed): for a CHECK_EQUAL field the outcome of bin_data, an
\* error or the values it returns, is the same for every order of the input.
C15_CheckEqualAnyOrder ==
    (bin_pc \in {"returned", "raised"} /\ InputHas({"CHECK_EQUAL"})) =>
        \A p \in Orders :
            LET r == bin_data(bin_type, Reordered(p))
            IN  /\ r.raised <=> bin_pc = "raised"
                /\ ~r.raised => RecordSet(r.output_list) = RecordSet(output_list)

\* C16 (as claimed): for SUM, MIN, MAX and AVERAGE fields the output records
\* of bin_data, as a set, are the same for every order of the input.
C16_AnyOrder ==
    (bin_pc = "returned" /\ InputHas({"SUM", "MIN", "MAX", "AVERAGE"})) =>
        \A p \in Orders :
            LET r == bin_data(bin_type, Reordered(p))
            IN  ~r.raised /\ RecordSet(r.output_list) = RecordSet(output_list)

\* C16 (amended): the same for MIN and MAX fields, and for SUM and AVERAGE
\* fields when no bucket holds more than two records.  Stated for every
\* exchange of two neighbouring records, of every input: the runs that differ
\* by a permutation are joined by a chain of such exchanges.
C16_AnyOrderMinMax ==
    ( /\ bin_pc = "returned"
      /\ \/ InputHas({"MIN", "MAX"})
         \/ /\ InputHas({"SUM", "AVERAGE"})
            /\ \A n \in DOMAIN output_list :
                   Cardinality(RecordsOf(output_list[n])) <= 2 ) =>
        \A p \in Exchanges :
            LET r == bin_data(bin_type, Reordered(p))
            IN  ~r.raised /\ RecordSet(r.output_list) = RecordSet(output_list)

\* bin_data has returned a bucket of three records of wind_speed_maximum
\* whose first value is not the largest.
C16_Witness ==
    /\ bin_pc = "returned"
    /\ Len(data) = 3
    /\ Len(output_list) = 1
    /\ "wind_speed_maximum" \in DOMAIN data[1]
    /\ data[1].wind_speed_maximum[1] < data[3].wind_speed_maximum[1]

----------------------------------------------------------------------------
(* Claims on the values of a bucket *)

\* C17: for a bucket of exactly one record bin_data returns the record's
\* value unchanged for every SUM, MIN, MAX and AVERAGE field, and the
\* record's one value for the CHECK_EQUAL field.
C17_SingleRecord ==
    bin_pc = "returned" =>
        \A n \in DOMAIN output_list :
            \A m \in RecordsOf(output_list[n]) :
                RecordsOf(output_list[n]) = {m} =>
                    \A k \in FieldsWith(output_list[n],
                                        {"SUM", "MIN", "MAX", "AVERAGE", "CHECK_EQUAL"}) :
                        output_list[n][k] = data[m][k]

\* bin_data has returned two buckets of one temperature record each.
C17_Witness ==
    /\ bin_pc = "returned"
    /\ Len(data) = 2
    /\ Len(output_list) = 2
    /\ "temperature" \in DOMAIN output_list[1]
    /\ output_list[1].temperature # output_list[2].temperature

\* The float sum of field k of the records at the positions I, in input order.
RefSum(k, I) ==
    LET recs == SubSeqAt(data, I)
        f[n \in 0..Len(recs)] ==
            IF n = 0 THEN 0 ELSE float_add(f[n - 1], recs[n][k][1])
    IN  f[Len(recs)]

\* The least and the greatest value of field k of the records at I.
RefMin(k, I) ==
    CHOOSE v \in {data[m][k][1] : m \in I} : \A m \in I : v <= data[m][k][1]
RefMax(k, I) ==
    CHOOSE v \in {data[m][k][1] : m \in I} : \A m \in I : v >= data[m][k][1]

\* The float nearest to sum / count, stated without dividing: q is a float
\* and none of the floats next to it is nearer to the quotient.
NearestQuotient(q, sum, count) ==
    /\ RoundToFloat(q, 1) = q
    /\ \A other \in (q - UlpOf(q, 1))..(q + UlpOf(q, 1)) :
          (other >= 0 /\ RoundToFloat(other, 1) = other) =>
              Abs(count * q - sum) <= Abs(count * other - sum)

\* C18: for every bucket and every AVERAGE field the accumulator after
\* folding k records is (k, sum of the k values); k >= 1 for every bucket
\* that exists, and the output is sum / k.
C18_AverageAccumulator ==
    /\ bin_pc = "binning" =>
          \A bin \in BinsOfMap :
              LET I == {m \in 1..idx : keys[m] = <<bin[1], bin[2]>>}
              IN  \A k \in FieldsWith(bin[3], {"AVERAGE"}) :
                      /\ Cardinality(I) >= 1
                      /\ bin[3][k] = <<Cardinality(I), RefSum(k, I)>>
    /\ bin_pc = "returned" =>
          \A n \in DOMAIN output_list :
              LET I == RecordsOf(output_list[n])
              IN  \A k \in FieldsWith(output_list[n], {"AVERAGE"}) :
                      /\ Len(output_list[n][k]) = 1
                      /\ NearestQuotient(output_list[n][k][1], RefSum(k, I), Cardinality(I))

\* bin_data has returned a bucket of three temperature records whose average
\* is not one of their values.
C18_Witness ==
    /\ bin_pc = "returned"
    /\ \E n \in DOMAIN output_list :
          /\ "temperature" \in DOMAIN output_list[n]
          /\ Cardinality(RecordsOf(output_list[n])) = 3
          /\ \A m \in RecordsOf(output_list[n]) :
                 data[m].temperature # output_list[n].temperature

\* C19: for every bucket the output of bin_data is the sum of the values of
\* its records for a SUM field, their minimum for a MIN field and their
\* maximum for a MAX field.
C19_ReferenceReduction ==
    bin_pc = "returned" =>
        \A n \in DOMAIN output_list :
            LET rec == output_list[n]
                I   == RecordsOf(rec)
            IN  /\ \A k \in FieldsWith(rec, {"SUM"}) : rec[k] = Num(RefSum(k, I))
                /\ \A k \in FieldsWith(rec, {"MIN"}) : rec[k] = Num(RefMin(k, I))
                /\ \A k \in FieldsWith(rec, {"MAX"}) : rec[k] = Num(RefMax(k, I))

\* bin_data has returned a bucket of wind_speed_minimum records whose first
\* value is not the least.
C19_Witness ==
    /\ bin_pc = "returned"
    /\ \E n \in DOMAIN output_list :
          /\ "wind_speed_minimum" \in DOMAIN output_list[n]
          /\ \E a \in RecordsOf(output_list[n]), b \in RecordsOf(output_list[n]) :
                 /\ a < b
                 /\ data[b].wind_speed_minimum[1] < data[a].wind_speed_minimum[1]
                 /\ output_list[n].wind_speed_minimum = data[b].wind_speed_minimum

----------------------------------------------------------------------------
(* Claims on the buckets of a run *)

\* The <<station, time_key>> pairs of the buckets in the map.
KeysOfMap == {<<bin[1], bin[2]>> : bin \in BinsOfMap}

\* The accumulator of field k of a bucket covers the records at I: all of
\* them are counted in an AVERAGE, summed in a SUM, and none is below a MIN
\* or above a MAX.
CoversAll(acc, k, I) ==
    CASE FIELD_MAP[k] = "AVERAGE" -> acc[1] = Cardinality(I)
      [] FIELD_MAP[k] = "SUM"     -> acc = Num(RefSum(k, I))
      [] FIELD_MAP[k] = "MIN"     -> \A m \in I : acc[1] <= data[m][k][1]
      [] FIELD_MAP[k] = "MAX"     -> \A m \in I : acc[1] >= data[m][k][1]

\* C20: bin_data returns exactly one output record per distinct
\* (station, time_key) pair of the input; a bucket is created by the first
\* record of its key only, and no later record of the key resets it.
C20_OneRecordPerKey ==
    /\ KeysOfMap = {keys[m] : m \in DOMAIN keys}
    /\ Len(Flatten(out_data_map)) = Cardinality(KeysOfMap)
    /\ bin_pc = "binning" =>
          \A bin \in BinsOfMap :
              \A k \in FieldsWith(bin[3], {"AVERAGE", "SUM", "MIN", "MAX"}) :
                  CoversAll(bin[3][k], k, {m \in 1..idx : keys[m] = <<bin[1], bin[2]>>})
    /\ bin_pc = "returned" =>
          /\ Len(output_list) =
                Cardinality({<<data[m].station, time_key(bin_type, data[m].time)>> :
                                m \in DOMAIN data})
          /\ \A m \in DOMAIN data :
                 \E n \in DOMAIN output_list :
                     /\ <<output_list[n].station, output_list[n].time>> = keys[m]
                     /\ \A o \in DOMAIN output_list :
                            <<output_list[o].station, output_list[o].time>> = keys[m]
                                => o = n

\* bin_data has returned two records for three input records: two records
\* of one key, with a record of another key between them.
C20_Witness ==
    /\ bin_pc = "returned"
    /\ Len(data) = 3
    /\ Len(output_list) = 2
    /\ keys[1] = keys[3]
    /\ keys[1] # keys[2]

----------------------------------------------------------------------------
(* Claims on the key fields of an output record *)

\* The fields of a record that are never aggregated: the station, and the
\* fields with the action NULL.
ExcludedFields(rec) ==
    {k \in DOMAIN rec : k = "station" \/ (k \in DOMAIN FIELD_MAP /\ FIELD_MAP[k] = "NULL")}

\* C21: in every output record 'station' is the station of the records folded
\* into the bucket and 'time' is the bucket's time_key string; these two
\* fields and every other field with the action NULL are never passed to
\* mix_in_value or complete_bin.
C21_KeyFields ==
    /\ \A c \in calls :
          \A m \in DOMAIN data : c[2] \notin ExcludedFields(data[m])
    /\ bin_pc = "returned" =>
          \A m \in DOMAIN data :
              LET D == Digits(AdjustedDate(data[m].time))
                  h == data[m].time.hour
                  K == IF bin_type = "daily" THEN D
                       ELSE IF h \in 1..12 THEN D \o "-AM" ELSE D \o "-PM"
              IN  \E n \in DOMAIN output_list :
                      /\ output_list[n].station = data[m].station
                      /\ output_list[n].time = K
                      /\ \A o \in DOMAIN output_list :
                             (output_list[o].station = data[m].station
                                 /\ output_list[o].time = K) => o = n
    /\ bin_pc = "returned" =>
          \A n \in DOMAIN output_list :
              \E m \in DOMAIN data : keys[m] = <<output_list[n].station, output_list[n].time>>

\* bin_data has returned records of two stations for input with the column
\* data_logger_id, under AM/PM binning.
C21_Witness ==
    /\ bin_pc = "returned"
    /\ bin_type = "ampm"
    /\ Len(output_list) = 2
    /\ "data_logger_id" \in DOMAIN output_list[1]
    /\ output_list[1].station # output_list[2].station

----------------------------------------------------------------------------
(* Claims on daily bins and their halves *)

\* bin_data on the input of the run with AM/PM bins; the run itself is the
\* one with daily bins.
HalvesRun == bin_data("ampm", data)

\* The records a run returns (none when it raises).
Buckets(list) == {list[n] : n \in DOMAIN list}

\* The AM/PM bucket, among H, of a half ("-AM" or "-PM") of a daily bucket:
\* a set of one record, or empty when the half is missing.
HalfBucket(H, day, half) ==
    {h \in H : h.station = day.station /\ h.time = day.time \o half}

\* The value of field k in a half, 0 for a missing half.
HalfValue(S, k) == IF S = {} THEN 0 ELSE (CHOOSE h \in S : TRUE)[k][1]

\* The number of records of the input that an AM/PM bucket holds.
RecordsOfHalf(S) ==
    Cardinality({m \in DOMAIN data :
        \E h \in S : <<data[m].station, time_key("ampm", data[m].time)>> = <<h.station, h.time>>})

\* The (station, date) keys of the daily buckets D and of the halves H are
\* the same.
SameDays(D, H) ==
    /\ \A day \in D : HalfBucket(H, day, "-AM") \cup HalfBucket(H, day, "-PM") # {}
    /\ \A h \in H :
          \E day \in D : h \in HalfBucket(H, day, "-AM") \cup HalfBucket(H, day, "-PM")

\* The daily SUM of a day is the AM SUM plus the PM SUM.
SameSum(H, day) ==
    \A k \in FieldsWith(day, {"SUM"}) :
        day[k] = Num(float_add(HalfValue(HalfBucket(H, day, "-AM"), k),
                               HalfValue(HalfBucket(H, day, "-PM"), k)))

\* The daily MIN and MAX are the least and the greatest of the halves.
SameExtremes(D, H) ==
    \A day \in D :
        LET halves == HalfBucket(H, day, "-AM") \cup HalfBucket(H, day, "-PM")
        IN  /\ \A k \in FieldsWith(day, {"MIN"}) :
                  /\ \E h \in halves : h[k] = day[k]
                  /\ \A h \in halves : day[k][1] <= h[k][1]
            /\ \A k \in FieldsWith(day, {"MAX"}) :
                  /\ \E h \in halves : h[k] = day[k]
                  /\ \A h \in halves : day[k][1] >= h[k][1]

\* The counts of the AVERAGE accumulators of the bins of a run, before
\* complete_bin divides: a set of <<station, time_key, count>>.
CountsOf(bt) ==
    LET bins == Flatten(BinAll(bt, << >>, data).map)
    IN  {<<bins[n].station, bins[n].time, bins[n].temperature[1]>> :
            n \in {m \in DOMAIN bins : "temperature" \in DOMAIN bins[m]}}

\* The count of the bin of a station and a time key among the counts C, 0
\* when there is none.
CountIn(C, station, key) ==
    LET S == {c \in C : c[1] = station /\ c[2] = key}
    IN  IF S = {} THEN 0 ELSE (CHOOSE c \in S : TRUE)[3]

\* Every record is counted in one bin of each run: per day the count of the
\* daily bin is the number of records of the day, and so is the sum of the
\* counts of its halves.
CountedOnce(CD, CH) ==
    \A c \in CD :
        /\ c[3] = Cardinality({m \in DOMAIN data :
                       <<data[m].station, time_key("daily", data[m].time)>> = <<c[1], c[2]>>})
        /\ c[3] = CountIn(CH, c[1], c[2] \o "-AM") + CountIn(CH, c[1], c[2] \o "-PM")

\* A run with daily bins has ended, by returning or by raising.
DailyRunEnded == bin_type = "daily" /\ bin_pc \in {"returned", "raised"}

\* C27 (as claimed): daily and AM/PM binning of the same input agree: the
\* (station, date) keys are the same, every daily SUM is the AM SUM plus the PM
\* SUM (0 for a missing half), every daily MIN or MAX is the least or the
\* greatest of the halves, and every record is counted in one bucket of each.
C27_DailyAgreesWithHalves ==
    DailyRunEnded =>
        LET D == Buckets(output_list)
            H == Buckets(HalvesRun.output_list)
        IN  /\ SameDays(D, H)
            /\ \A day \in D : SameSum(H, day)
            /\ SameExtremes(D, H)
            /\ CountedOnce(CountsOf("daily"), CountsOf("ampm"))

\* C27 (amended): when bin_data returns in both modes, the (station, date)
\* keys are the same, every daily MIN or MAX is the least or the greatest of
\* the halves, every record is counted in one bucket of each mode, and the
\* daily SUM is the AM SUM plus the PM SUM (0 for a missing half) for every
\* day of which a half is missing or each half holds a single record.
C27_DailyAgreesWithSmallHalves ==
    (DailyRunEnded /\ bin_pc = "returned") =>
        LET halves == HalvesRun
            D == Buckets(output_list)
            H == Buckets(halves.output_list)
        IN  ~halves.raised =>
                /\ SameDays(D, H)
                /\ \A day \in D :
                      LET am == HalfBucket(H, day, "-AM")
                          pm == HalfBucket(H, day, "-PM")
                      IN  (\/ am = {}
                           \/ pm = {}
                           \/ RecordsOfHalf(am) = 1 /\ RecordsOfHalf(pm) = 1) =>
                              SameSum(H, day)
                /\ SameExtremes(D, H)
                /\ CountedOnce(CountsOf("daily"), CountsOf("ampm"))

\* C27 witness: bin_data has returned the daily bin of a day with one
\* precipitation record in each half and with different readings, next to a
\* record of another station.
C27_Witness ==
    /\ DailyRunEnded
    /\ bin_pc = "returned"
    /\ Len(data) = 3
    /\ \E n \in DOMAIN output_list :
          LET H  == Buckets(HalvesRun.output_list)
              am == HalfBucket(H, output_list[n], "-AM")
              pm == HalfBucket(H, output_list[n], "-PM")
          IN  /\ "precipitation" \in DOMAIN output_list[n]
              /\ RecordsOfHalf(am) = 1
              /\ RecordsOfHalf(pm) = 1
              /\ HalfValue(am, "precipitation") # HalfValue(pm, "precipitation")
              /\ output_list[n].precipitation # Num(HalfValue(am, "precipitation"))

----------------------------------------------------------------------------
(* Claims on the cron script *)

\* One of the two dates of the run does not parse as %Y%m%d (a missing end
\* date being the start date).
DatesDoNotParse ==
    \/ strptime_date(start_date).raised
    \/ strptime_date(IF end_date = None THEN start_date ELSE end_date).raised

\* C24 (as claimed): if start_date or end_date does not parse as %Y%m%d,
\* configure_script does not return normally and main never launches the
\* kleio subprocess.
C24_InvalidDatesStopTheRun ==
    DatesDoNotParse =>
        /\ cron_pc \notin {"configured", "kleio_done", "exited", "loading", "finished"}
        /\ kleio_command = None

----------------------------------------------------------------------------
(* Claims on the window of a run of kleio *)

\* The text of a string given by its characters.
RECURSIVE Concat(_)
Concat(cs) == IF cs = << >> THEN "" ELSE Head(cs) \o Concat(Tail(cs))

\* The days about the measurement table.
ClaimDays ==
    { [year |-> 2018, month |-> 12, day |-> 30], [year |-> 2018, month |-> 12, day |-> 31],
      [year |-> 2019, month |-> 1, day |-> 1], [year |-> 2019, month |-> 1, day |-> 2],
      [year |-> 2019, month |-> 1, day |-> 3], [year |-> 2019, month |-> 1, day |-> 4] }

\* An argument that is a date and nothing else, written YYYYMMDD, and the day
\* it names.
WrittenAsDate(arg) == \E d \in ClaimDays : Digits(d) = Concat(arg)
DayWritten(arg) == CHOOSE d \in ClaimDays : Digits(d) = Concat(arg)

\* The days S and E of a run: -e defaults to -s.
DayS == DayWritten(argv.start)
DayE == IF argv.end = None THEN DayS ELSE DayWritten(argv.end)

\* The day after E.
DayAfterE == CHOOSE d \in ClaimDays : DayNumber(d) = DayNumber(DayE) + 1

\* The run has date-only -s and -e arguments and a station list.
DateOnlyRun ==
    /\ argv.start # None
    /\ WrittenAsDate(argv.start)
    /\ argv.end = None \/ WrittenAsDate(argv.end)
    /\ stations # << >>

\* The hours since the calendar began, for a stamp on the hour.
HourNumber(t) == DayNumber(DateOf(t)) * 24 + t.hour

\* A stamp on the hour lies in [S 00:00:01, (E+1 day) 00:00:00].
InClaimedWindow(t) ==
    /\ HourNumber(t) >= DayNumber(DayS) * 24 + 1
    /\ HourNumber(t) <= (DayNumber(DayE) + 1) * 24

\* The rows of the table that the run is to bin, in their order.
RECURSIVE RowsInWindow(_)
RowsInWindow(rows) ==
    IF rows = << >> THEN << >>
    ELSE (IF InClaimedWindow(Head(rows).time)
             /\ \E n \in DOMAIN stations : stations[n] = Head(rows).station
          THEN <<Head(rows)>> ELSE << >>) \o RowsInWindow(Tail(rows))

\* The keys of the days from S to E.
KeysWithin ==
    { Digits(d) \o half :
        d \in {c \in ClaimDays : DayNumber(DayS) <= DayNumber(c) /\ DayNumber(c) <= DayNumber(DayE)},
        half \in {"", "-AM", "-PM"} }

\* C28: with date-only arguments -s S and -e E (written YYYYMMDD, time zone
\* gmt), kleio queries the window [S 00:00:01, (E+1 day) 00:00:00]; the rows
\* it fetches are the rows on the hour inside that window, and bin_data puts
\* every one of them in a bin of a date from S to E.  The row at S 00:00:00 is
\* not fetched; the row at (E+1) 00:00:00 is, and goes to day E.
C28_DateWindow ==
    DateOnlyRun =>
        /\ main_pc # "exited"
        /\ main_pc \notin {"parsed", "exited"} =>
              /\ start_time = [year |-> DayS.year, month |-> DayS.month, day |-> DayS.day,
                               hour |-> 0, minute |-> 0, second |-> 1]
              /\ end_time = [year |-> DayAfterE.year, month |-> DayAfterE.month,
                             day |-> DayAfterE.day,
                             hour |-> 0, minute |-> 0, second |-> 0]
        /\ main_pc \in {"queried", "fetched"} =>
              /\ data = RowsInWindow(table)
              /\ \A n \in DOMAIN data :
                    /\ DateOf(data[n].time) = DayS => data[n].time.hour # 0
                    /\ DayNumber(AdjustedDate(data[n].time)) >= DayNumber(DayS)
                    /\ DayNumber(AdjustedDate(data[n].time)) <= DayNumber(DayE)
        /\ bin_pc \in {"binning", "returned"} =>
              /\ bin_pc = "returned" => Len(keys) = Len(RowsInWindow(table))
              /\ \A m \in DOMAIN keys :
                    /\ keys[m][2] \in KeysWithin
                    /\ DateOf(RowsInWindow(table)[m].time) = DayAfterE =>
                          keys[m][2] \in {Digits(DayE), Digits(DayE) \o "-PM"}
              /\ \A n \in DOMAIN output_list : output_list[n].time \in KeysWithin
        /\ bin_pc # "raised"

\* C28 witness: a run with -s 20181231 -e 20190101 and AM/PM bins has printed
\* its rows; the table held a row at 2018-12-31 00:00, which is not among the
\* bins, rows inside the two days, and the row at 2019-01-02 00:00, which is in
\* the bin 20190101-PM.
C28_Witness ==
    /\ main_pc = "printed"
    /\ bin_type = "ampm"
    /\ argv = [start |-> S20181231, end |-> S20190101]
    /\ Len(table) = Len(TableRows)
    /\ Len(keys) = 4
    /\ keys[4] = <<"HUR", "20190101-PM">>
    /\ \E n \in DOMAIN data : data[n].time = "20190101-PM"
    /\ \A n \in DOMAIN data : data[n].time # "20181230-PM"

====
